---- MODULE Spec2Model ----
(***************************************************************************)
(* Ad-segment detection engine of adblock_podcast (dgx-scripts).           *)
(*                                                                         *)
(* Numbers.  The source computes in floats.  Scores and confidences are    *)
(* integers in ten-thousandths here (Unit = 1.0), divisions round down.  Times  *)
(* are integers in ticks of 0.5 s, the hop of the audio extractor, so      *)
(* every timestamp the model uses is exact.                                *)
(*                                                                         *)
(* Text.  A text is a sequence of phrases.  A phrase carries its length in *)
(* characters and the regular expressions of the source tables it matches  *)
(* (by table and position in the table); a pattern matches a text iff it   *)
(* matches one of its phrases.  " ".join is concatenation, one separator   *)
(* character between two phrases.                                          *)
(***************************************************************************)
EXTENDS Integers, Sequences, FiniteSets, TLC

Unit == 100 * 100
Pct(p) == p * (Unit \div 100)
TicksPerSec == 2
Secs(s) == s * TicksPerSec

Min2(a, b) == IF a <= b THEN a ELSE b
Max2(a, b) == IF a >= b THEN a ELSE b
Abs(a) == IF a >= 0 THEN a ELSE 0 - a
Range(s) == {s[i] : i \in DOMAIN s}
SetMin(S) == CHOOSE v \in S : \A w \in S : v <= w
SetMax(S) == CHOOSE v \in S : \A w \in S : v >= w

RECURSIVE SumSeq(_)
SumSeq(s) == IF s = << >> THEN 0 ELSE Head(s) + SumSeq(Tail(s))

RECURSIVE Flatten(_)
Flatten(ss) == IF ss = << >> THEN << >> ELSE Head(ss) \o Flatten(Tail(ss))

\* the elements of s at the indices in idx, in order
AtIndices(s, idx) ==
  Flatten([i \in DOMAIN s |-> IF i \in idx THEN <<s[i]>> ELSE << >>])

\* np.mean of the values of s at the indices in idx (idx not empty)
MeanAt(s, idx) == SumSeq(AtIndices(s, idx)) \div Cardinality(idx)

(***************************************************************************)
(* Phrases: the tables each one matches were obtained by running the       *)
(* source's regular expressions on the quoted sentence.  lo and hi are the *)
(* offsets at which the phrase's intro or outro match begins and ends.     *)
(***************************************************************************)
\* "So the dragon landed on the castle and everyone ran."
Filler == [len |-> 52, cls |-> {}, kw |-> {}, tr |-> {}, lo |-> 0, hi |-> 0]
\* "This episode is brought to you by Progressive Insurance."
BroughtToYouBy ==
  [len |-> 56, cls |-> {<<"sponsor", 1>>, <<"sponsor", 3>>}, kw |-> {1, 41}, tr |-> {}, lo |-> 0, hi |-> 0]
\* "Get a quote at progressive.com today."
QuoteAtDotCom == [len |-> 37, cls |-> {<<"url", 1>>}, kw |-> {41}, tr |-> {}, lo |-> 0, hi |-> 0]
\* "Use code PODCAST at checkout."
UseCode ==
  [len |-> 29, cls |-> {<<"promo", 2>>, <<"promo", 3>>}, kw |-> {8, 10}, tr |-> {}, lo |-> 0, hi |-> 0]
\* "Now let me tell you about something."
LetMeTellYou == [len |-> 36, cls |-> {<<"intro", 1>>}, kw |-> {}, tr |-> {1}, lo |-> 4, hi |-> 25]
\* "Anyway, back to the story."
BackToTheStory == [len |-> 26, cls |-> {<<"outro", 1>>}, kw |-> {}, tr |-> {6}, lo |-> 0, hi |-> 15]

\* "Sign up for a free trial."
SignUp ==
  [len |-> 25, cls |-> {<<"cta", 1>>, <<"cta", 4>>}, kw |-> {16, 17}, tr |-> {}, lo |-> 0, hi |-> 0]
\* "The barbarian wanted to fight of course but the wizard suggested a more
\* diplomatic approach to the whole situation instead."
LongFiller == [len |-> 123, cls |-> {}, kw |-> {}, tr |-> {}, lo |-> 0, hi |-> 0]

\* the texts a transcript segment can carry
PlainText == <<Filler>>
SponsorRead == <<BroughtToYouBy, QuoteAtDotCom, UseCode>>


\* len(text)
TextLen(text) ==
  IF text = << >> THEN 0
  ELSE SumSeq([i \in DOMAIN text |-> text[i].len]) + (Len(text) - 1)

\* offset of the first character of phrase i
PhraseStart(text, i) == SumSeq([j \in 1..(i - 1) |-> text[j].len + 1])

\* text[:n] and text[-n:]: the phrases whose match lies inside the slice
TextHead(text, n) ==
  AtIndices(text, {i \in DOMAIN text : PhraseStart(text, i) + text[i].hi <= n})
TextTail(text, n) ==
  AtIndices(text, {i \in DOMAIN text : PhraseStart(text, i) + text[i].lo >= TextLen(text) - n})

\* " ".join(texts)
JoinTexts(texts) == Flatten(texts)

(***************************************************************************)
(* The sentence-embedding model is a black box: cosine similarity is high  *)
(* between two texts of the same kind (both advertising, both editorial)   *)
(* and low otherwise.                                                      *)
(***************************************************************************)
IsAdText(text) == \E i \in DOMAIN text : text[i].kw # {} \/ text[i].cls # {}
CosineSimilarity(t1, t2) == IF IsAdText(t1) = IsAdText(t2) THEN Pct(80) ELSE Pct(20)

(***************************************************************************)
(* AdClassifier (ad_classifier.py)                                         *)
(***************************************************************************)
DURATION_TOLERANCE == 10
SliceChars == 200
IslandSimilarity == Pct(40)
NeutralSimilarity == Pct(50)

_count_pattern_matches(text, table) ==
  Cardinality({p \in UNION {text[i].cls : i \in DOMAIN text} : p[1] = table})

_has_pattern(text, table) == _count_pattern_matches(text, table) > 0

_is_standard_duration(duration) ==
  \E std \in {30, 60, 90, 120} : Abs(duration - Secs(std)) <= Secs(DURATION_TOLERANCE)

\* a similarity that is 0 when there is nothing to compare with
TopicSimilarityZero(text1, text2, embedding_model) ==
  IF text1 = << >> \/ text2 = << >> \/ ~embedding_model
  THEN 0
  ELSE CosineSimilarity(text1, text2)

_compute_topic_similarity(text1, text2, embedding_model) ==
  IF text1 = << >> \/ text2 = << >> \/ ~embedding_model
  THEN NeutralSimilarity
  ELSE CosineSimilarity(text1, text2)

\* a scoring that takes the outro transition as evidence against an ad
ConfidenceOutroPenalty(f) ==
  LET score == (IF f.has_sponsor THEN Pct(35) ELSE 0)
             + (IF f.has_promo THEN Pct(25) ELSE 0)
             + (IF f.has_url THEN Pct(15) ELSE 0)
             + (IF f.has_cta THEN Pct(15) ELSE 0)
             + (IF f.has_intro THEN Pct(10) ELSE 0)
             + (IF f.is_standard_length THEN Pct(10) ELSE 0)
             + (IF f.is_topic_island THEN Pct(15) ELSE 0)
             + (f.keyword_score * 20) \div 100
  IN Min2(IF f.has_outro THEN Max2(score - Pct(5), 0) ELSE score, Unit)

\* a scoring that returns the sum as it is
ConfidenceUnclamped(f) ==
  (IF f.has_sponsor THEN Pct(35) ELSE 0)
  + (IF f.has_promo THEN Pct(25) ELSE 0)
  + (IF f.has_url THEN Pct(15) ELSE 0)
  + (IF f.has_cta THEN Pct(15) ELSE 0)
  + (IF f.has_intro THEN Pct(10) ELSE 0)
  + (IF f.has_outro THEN Pct(5) ELSE 0)
  + (IF f.is_standard_length THEN Pct(10) ELSE 0)
  + (IF f.is_topic_island THEN Pct(15) ELSE 0)
  + (f.keyword_score * 20) \div 100

\* f: keyword_score and the eight indicators
_compute_confidence(f) ==
  LET score == (IF f.has_sponsor THEN Pct(35) ELSE 0)
             + (IF f.has_promo THEN Pct(25) ELSE 0)
             + (IF f.has_url THEN Pct(15) ELSE 0)
             + (IF f.has_cta THEN Pct(15) ELSE 0)
             + (IF f.has_intro THEN Pct(10) ELSE 0)
             + (IF f.has_outro THEN Pct(5) ELSE 0)
             + (IF f.is_standard_length THEN Pct(10) ELSE 0)
             + (IF f.is_topic_island THEN Pct(15) ELSE 0)
             + (f.keyword_score * 20) \div 100
  IN Min2(score, Unit)

\* a feature extraction that looks for outro phrases in short spans too
ExtractFeaturesOutroAnywhere(text, duration, text_before, text_after, embedding_model) ==
  LET sponsor_matches == _count_pattern_matches(text, "sponsor")
      promo_matches == _count_pattern_matches(text, "promo")
      url_matches == _count_pattern_matches(text, "url")
      cta_matches == _count_pattern_matches(text, "cta")
      total_keywords == sponsor_matches + promo_matches + url_matches + cta_matches
      keyword_score == Min2((total_keywords * Unit) \div 5, Unit)
      has_intro == IF TextLen(text) > SliceChars
                   THEN _has_pattern(TextHead(text, SliceChars), "intro")
                   ELSE _has_pattern(text, "intro")
      has_outro == IF TextLen(text) > SliceChars
                   THEN _has_pattern(TextTail(text, SliceChars), "outro")
                   ELSE _has_pattern(text, "outro")
      is_standard == _is_standard_duration(duration)
      sim_before == _compute_topic_similarity(text, text_before, embedding_model)
      sim_after == _compute_topic_similarity(text, text_after, embedding_model)
      is_island == sim_before < IslandSimilarity /\ sim_after < IslandSimilarity
  IN [keyword_count |-> total_keywords,
      keyword_score |-> keyword_score,
      has_url |-> url_matches > 0,
      has_promo_code |-> promo_matches > 0,
      has_call_to_action |-> cta_matches > 0,
      has_sponsor_phrase |-> sponsor_matches > 0,
      has_intro_transition |-> has_intro,
      has_outro_transition |-> has_outro,
      duration |-> duration,
      is_standard_ad_length |-> is_standard,
      topic_similarity_before |-> sim_before,
      topic_similarity_after |-> sim_after,
      is_topic_island |-> is_island,
      confidence |-> _compute_confidence(
                        [keyword_score |-> keyword_score,
                         has_sponsor |-> sponsor_matches > 0,
                         has_promo |-> promo_matches > 0,
                         has_url |-> url_matches > 0,
                         has_cta |-> cta_matches > 0,
                         has_intro |-> has_intro,
                         has_outro |-> has_outro,
                         is_standard_length |-> is_standard,
                         is_topic_island |-> is_island])]

extract_features(text, duration, text_before, text_after, embedding_model) ==
  LET sponsor_matches == _count_pattern_matches(text, "sponsor")
      promo_matches == _count_pattern_matches(text, "promo")
      url_matches == _count_pattern_matches(text, "url")
      cta_matches == _count_pattern_matches(text, "cta")
      total_keywords == sponsor_matches + promo_matches + url_matches + cta_matches
      keyword_score == Min2((total_keywords * Unit) \div 5, Unit)
      has_intro == IF TextLen(text) > SliceChars
                   THEN _has_pattern(TextHead(text, SliceChars), "intro")
                   ELSE _has_pattern(text, "intro")
      has_outro == IF TextLen(text) > SliceChars
                   THEN _has_pattern(TextTail(text, SliceChars), "outro")
                   ELSE FALSE
      is_standard == _is_standard_duration(duration)
      sim_before == _compute_topic_similarity(text, text_before, embedding_model)
      sim_after == _compute_topic_similarity(text, text_after, embedding_model)
      is_island == sim_before < IslandSimilarity /\ sim_after < IslandSimilarity
  IN [keyword_count |-> total_keywords,
      keyword_score |-> keyword_score,
      has_url |-> url_matches > 0,
      has_promo_code |-> promo_matches > 0,
      has_call_to_action |-> cta_matches > 0,
      has_sponsor_phrase |-> sponsor_matches > 0,
      has_intro_transition |-> has_intro,
      has_outro_transition |-> has_outro,
      duration |-> duration,
      is_standard_ad_length |-> is_standard,
      topic_similarity_before |-> sim_before,
      topic_similarity_after |-> sim_after,
      is_topic_island |-> is_island,
      confidence |-> _compute_confidence(
                        [keyword_score |-> keyword_score,
                         has_sponsor |-> sponsor_matches > 0,
                         has_promo |-> promo_matches > 0,
                         has_url |-> url_matches > 0,
                         has_cta |-> cta_matches > 0,
                         has_intro |-> has_intro,
                         has_outro |-> has_outro,
                         is_standard_length |-> is_standard,
                         is_topic_island |-> is_island])]

\* AdClassifier.classify: (is_ad, confidence, features); the callers modelled
\* here read the confidence and the features only
classify(text, duration, text_before, text_after, embedding_model) ==
  extract_features(text, duration, text_before, text_after, embedding_model)

(***************************************************************************)
(* AudioFeatureExtractor (audio_features.py).  librosa decodes the file;   *)
(* a clip is the list of its frames' features.  mfcc_mean is one number,   *)
(* the distance of two frames is the difference of their numbers.          *)
(***************************************************************************)
FrameTicks == 2
CentroidScale == 5000
MfccScale == 50

VoiceFrame == [energy |-> Pct(20), spectral_centroid |-> 1500, is_speech |-> TRUE, mfcc_mean |-> 10]

(***************************************************************************)
(* EnsembleAdDetector scores used by the hybrid detector's text signals    *)
(***************************************************************************)
keyword_score(text) ==
  IF text = << >> THEN 0
  ELSE LET matches == Cardinality(UNION {text[i].kw : i \in DOMAIN text})
       IN Min2((matches * Unit) \div 3, Unit)

transition_score(text, position) ==
  IF text = << >> THEN 0
  ELSE LET matches == Cardinality(UNION {text[i].tr : i \in DOMAIN text})
           multiplier == IF position \in {"start", "end"} THEN 15 ELSE 10
       IN Min2((matches * 5 * multiplier * Unit) \div 100, Unit)

embedding_score(text, embedding_model) ==
  IF text = << >> \/ ~embedding_model THEN 0
  ELSE LET max_sim == IF IsAdText(text) THEN Pct(70) ELSE Pct(10)
       IN Min2((Max2(max_sim - Pct(20), 0) * 100) \div 50, Unit)

boundary_score(prev_text, curr_text, embedding_model) ==
  IF prev_text = << >> \/ curr_text = << >> \/ ~embedding_model THEN 0
  ELSE (Max2(Pct(70) - CosineSimilarity(prev_text, curr_text), 0) * 100) \div 40

(***************************************************************************)
(* HybridAdDetector (hybrid_detector.py)                                   *)
(***************************************************************************)

_extract_audio_signals(clip) ==
  LET \* compute_change_scores, speaker ids absent (no diarization)
      compute_change_scores(all) ==
        LET ChangeScore(prev, curr) ==
              LET de == Abs(curr.energy - prev.energy)
                  energy_change == IF de >= prev.energy + Unit \div 1000 THEN Unit
                                   ELSE (de * Unit) \div (prev.energy + Unit \div 1000)
                  spectral_change ==
                    (Abs(curr.spectral_centroid - prev.spectral_centroid) * Unit) \div CentroidScale
                  mfcc_dist == (Abs(curr.mfcc_mean - prev.mfcc_mean) * Unit) \div MfccScale
                  speech_change == IF curr.is_speech # prev.is_speech THEN Unit ELSE 0
              IN (20 * Min2(energy_change, Unit) + 20 * Min2(spectral_change, Unit)
                  + 30 * Min2(mfcc_dist, Unit) + 15 * speech_change) \div 100
        IN IF Len(all) < 2 THEN << >>
           ELSE [i \in 1..(Len(all) - 1) |-> ChangeScore(all[i], all[i + 1])]
      \* AudioFeatureExtractor.extract_features: frame i starts at i hops
      frames == [i \in DOMAIN clip |->
                   [start |-> i - 1, end |-> (i - 1) + FrameTicks,
                    energy |-> clip[i].energy, spectral_centroid |-> clip[i].spectral_centroid,
                    is_speech |-> clip[i].is_speech, mfcc_mean |-> clip[i].mfcc_mean]]
  IN [timestamps |-> [i \in DOMAIN frames |-> frames[i].start],
      signals |->
        [audio_energy |-> [i \in DOMAIN frames |-> frames[i].energy],
         audio_spectral |-> [i \in DOMAIN frames |->
                               (frames[i].spectral_centroid * Unit) \div CentroidScale],
         audio_speech |-> [i \in DOMAIN frames |-> IF frames[i].is_speech THEN Unit ELSE 0],
         audio_change |-> <<0>> \o compute_change_scores(frames)]]

_extract_text_signals(transcript, mode, has_embeddings) ==
  LET n == Len(transcript)
      prev(i) == IF i > 1 THEN transcript[i - 1].text ELSE << >>
      base == [keyword |-> [i \in 1..n |-> keyword_score(transcript[i].text)],
               transition |-> [i \in 1..n |-> transition_score(transcript[i].text, "middle")]]
      emb == [embedding |-> [i \in 1..n |-> embedding_score(transcript[i].text, TRUE)],
              boundary |-> [i \in 1..n |-> boundary_score(prev(i), transcript[i].text, TRUE)]]
  IN [timestamps |-> [i \in 1..n |-> transcript[i].start],
      signals |-> IF mode = "accurate" /\ has_embeddings THEN emb @@ base ELSE base]

\* an alignment that cuts a long channel at its head instead of its tail
AlignOneFromTail(signal, n) ==
  [i \in 1..n |-> IF Len(signal) > n THEN signal[Len(signal) - n + i]
                  ELSE IF i <= Len(signal) THEN signal[i] ELSE 0]

\* one channel of _align_signals: cut or zero-padded to n samples
AlignOne(signal, n) ==
  [i \in 1..n |-> IF i <= Len(signal) THEN signal[i] ELSE 0]

\* the channel names, in a fixed order
SignalNames ==
  <<"audio_energy", "audio_spectral", "audio_speech", "audio_change",
    "keyword", "transition", "embedding", "boundary">>

\* signals aligned and not empty
_combine_signals(signals, weights) ==
  LET \* min-max scaling of one channel; a constant channel is left as it is
      Normalize(signal) ==
        LET sig_min == SetMin(Range(signal))
            sig_max == SetMax(Range(signal))
        IN IF sig_max > sig_min
           THEN [i \in DOMAIN signal |-> ((signal[i] - sig_min) * Unit) \div (sig_max - sig_min)]
           ELSE signal
      used == {k \in DOMAIN SignalNames : SignalNames[k] \in DOMAIN signals \cap DOMAIN weights}
      total_weight == SumSeq(AtIndices([k \in DOMAIN SignalNames |->
                                          IF k \in used THEN weights[SignalNames[k]] ELSE 0], used))
      norm == [k \in used |-> Normalize(signals[SignalNames[k]])]
      n == Len(signals[CHOOSE name \in DOMAIN signals : TRUE])
      weighted(i) == SumSeq(AtIndices([k \in DOMAIN SignalNames |->
                                         IF k \in used THEN weights[SignalNames[k]] * norm[k][i] ELSE 0],
                                      used))
  IN [i \in 1..n |-> IF total_weight > 0 THEN weighted(i) \div total_weight
                     ELSE 0]

(***************************************************************************)
(* _detect_change_points                                                   *)
(***************************************************************************)
MinSamples == 10
PeltMinSize == 5
PeakGap == 5

\* a clustering that keeps every peak
ClusterPeaksAll(peaks, timestamps, idx, last_cp) ==
  AtIndices(timestamps, {p + 1 : p \in peaks})

\* the loop over the peaks: idx (from 0) is kept if more than PeakGap after the last kept
RECURSIVE ClusterPeaks(_, _, _, _)
ClusterPeaks(peaks, timestamps, idx, last_cp) ==
  IF idx >= Len(timestamps) THEN << >>
  ELSE IF idx \in peaks /\ idx - last_cp > PeakGap
       THEN <<timestamps[idx + 1]>> \o ClusterPeaks(peaks, timestamps, idx + 1, idx)
       ELSE ClusterPeaks(peaks, timestamps, idx + 1, last_cp)

\* peaks (indices from 0) of |np.gradient| above its 90th percentile
GradientPeaks(signal) ==
  LET n == Len(signal)
      \* twice |np.gradient(signal)|: central differences, one-sided at the ends
      gradient == [i \in 1..n |->
                     IF i = 1 THEN 2 * Abs(signal[2] - signal[1])
                     ELSE IF i = n THEN 2 * Abs(signal[n] - signal[n - 1])
                     ELSE Abs(signal[i + 1] - signal[i - 1])]
      \* sorted(gradient)[k], k from 0
      KthSmallest(k) ==
        CHOOSE v \in Range(gradient) :
          /\ Cardinality({i \in 1..n : gradient[i] < v}) <= k
          /\ Cardinality({i \in 1..n : gradient[i] <= v}) > k
      \* ten times np.percentile(gradient, 90), linear interpolation between ranks
      h10 == 9 * (n - 1)
      lo == h10 \div 10
      r == h10 % 10
      threshold == IF r = 0 THEN 10 * KthSmallest(lo)
                   ELSE 10 * KthSmallest(lo) + r * (KthSmallest(lo + 1) - KthSmallest(lo))
  IN {i - 1 : i \in {j \in DOMAIN gradient : 10 * gradient[j] > threshold}}

\* the values _detect_change_points can return.
\* rpt.Pelt(model="rbf", min_size=5, jump=1) is an external solver.  It returns
\* breakpoints that leave every piece at least min_size samples; on a constant
\* signal every piece costs nothing, so the penalty leaves no breakpoint.
\* The gradient fallback clusters the peaks (last_cp = -10 before the loop).
_detect_change_points(signal, timestamps, has_ruptures) ==
  LET inner == PeltMinSize..(Len(signal) - PeltMinSize)
      PeltBreakpoints ==
        IF SetMin(Range(signal)) = SetMax(Range(signal)) THEN {{}}
        ELSE {B \in SUBSET inner : \A a, b \in B : a # b => Abs(a - b) >= PeltMinSize}
      GradientChangePoints == ClusterPeaks(GradientPeaks(signal), timestamps, 0, 0 - 10)
  IN IF Len(signal) < MinSamples THEN {<< >>}
     ELSE {GradientChangePoints}
          \cup (IF has_ruptures
                THEN {AtIndices(timestamps, {b + 1 : b \in B}) : B \in PeltBreakpoints}
                ELSE {})

(***************************************************************************)
(* DetectionResult lists                                                   *)
(***************************************************************************)
Flag(b) == IF b THEN Unit ELSE 0
Round3(x) == ((x + 5) \div 10) * 10
Lookup(d, k) == IF k \in DOMAIN d THEN d[k] ELSE 0

\* the texts of the transcript segments that start in [lo, hi), joined
TextIn(transcript, lo, hi) ==
  JoinTexts(AtIndices([i \in DOMAIN transcript |-> transcript[i].text],
                      {i \in DOMAIN transcript : lo <= transcript[i].start /\ transcript[i].start < hi}))

ClassifyThreshold == Pct(35)
ContextSecs == 60

\* the intervals the loop of _classify_segments runs over, each with the samples of its
\* mask: boundaries = first timestamp, change points, last timestamp (line 323);
\* mask = (timestamps >= start) & (timestamps < end) (line 330)
ScoredIntervals(timestamps, change_points) ==
  LET boundaries == <<timestamps[1]>> \o change_points \o <<timestamps[Len(timestamps)]>>
  IN [i \in 1..(Len(boundaries) - 1) |->
        [start |-> boundaries[i], end |-> boundaries[i + 1],
         mask |-> {j \in DOMAIN timestamps :
                     timestamps[j] >= boundaries[i] /\ timestamps[j] < boundaries[i + 1]}]]

\* a scorer with the two weights the wrong way round
ClassifyIntervalSwapped(start, end, mask, combined, signals, transcript, mode, has_embeddings) ==
  LET signal_score == MeanAt(combined, mask)
      sig_avgs == [name \in DOMAIN signals |-> MeanAt(signals[name], mask)]
      seg_text == TextIn(transcript, start, end)
      text_before == TextIn(transcript, start - Secs(ContextSecs), start)
      text_after == TextIn(transcript, end, end + Secs(ContextSecs))
      features == classify(seg_text, end - start, text_before, text_after, has_embeddings)
      classified == transcript # << >> /\ seg_text # << >>
      classifier_confidence == IF classified THEN features.confidence ELSE 0
      classifier_features ==
        IF classified
        THEN [has_sponsor |-> Flag(features.has_sponsor_phrase),
              has_promo |-> Flag(features.has_promo_code),
              has_url |-> Flag(features.has_url),
              has_cta |-> Flag(features.has_call_to_action),
              has_intro |-> Flag(features.has_intro_transition),
              has_outro |-> Flag(features.has_outro_transition),
              is_standard_length |-> Flag(features.is_standard_ad_length),
              is_topic_island |-> Flag(features.is_topic_island)]
        ELSE << >>
      final_confidence ==
        IF transcript # << >>
        THEN (60 * signal_score + 40 * classifier_confidence) \div 100
        ELSE signal_score
  IN IF mask = {} THEN << >>
     ELSE IF final_confidence > ClassifyThreshold
     THEN <<[start |-> start, end |-> end, confidence |-> final_confidence,
             signals |-> [signal_score |-> Round3(signal_score),
                          classifier_score |-> Round3(classifier_confidence)]
                         @@ classifier_features @@ sig_avgs,
             method |-> <<mode>>]>>
     ELSE << >>

\* one pass of the loop of _classify_segments: the interval boundaries[i], boundaries[i+1]
ClassifyInterval(start, end, mask, combined, signals, transcript, mode, has_embeddings) ==
  LET signal_score == MeanAt(combined, mask)
      sig_avgs == [name \in DOMAIN signals |-> MeanAt(signals[name], mask)]
      seg_text == TextIn(transcript, start, end)
      text_before == TextIn(transcript, start - Secs(ContextSecs), start)
      text_after == TextIn(transcript, end, end + Secs(ContextSecs))
      features == classify(seg_text, end - start, text_before, text_after, has_embeddings)
      classified == transcript # << >> /\ seg_text # << >>
      classifier_confidence == IF classified THEN features.confidence ELSE 0
      classifier_features ==
        IF classified
        THEN [has_sponsor |-> Flag(features.has_sponsor_phrase),
              has_promo |-> Flag(features.has_promo_code),
              has_url |-> Flag(features.has_url),
              has_cta |-> Flag(features.has_call_to_action),
              has_intro |-> Flag(features.has_intro_transition),
              has_outro |-> Flag(features.has_outro_transition),
              is_standard_length |-> Flag(features.is_standard_ad_length),
              is_topic_island |-> Flag(features.is_topic_island)]
        ELSE << >>
      final_confidence ==
        IF transcript # << >>
        THEN (40 * signal_score + 60 * classifier_confidence) \div 100
        ELSE signal_score
  IN IF mask = {} THEN << >>
     ELSE IF final_confidence > ClassifyThreshold
     THEN <<[start |-> start, end |-> end, confidence |-> final_confidence,
             signals |-> [signal_score |-> Round3(signal_score),
                          classifier_score |-> Round3(classifier_confidence)]
                         @@ classifier_features @@ sig_avgs,
             method |-> <<mode>>]>>
     ELSE << >>

\* a merge that takes both bounds from the later interval
MergeTwoFromAd(last, ad) ==
  [start |-> ad.start,
   end |-> ad.end,
   confidence |-> (last.confidence + ad.confidence) \div 2,
   signals |-> [k \in DOMAIN last.signals \cup DOMAIN ad.signals |->
                  (Lookup(last.signals, k) + Lookup(ad.signals, k)) \div 2],
   method |-> last.method]

\* the DetectionResult that replaces merged[-1]
MergeTwo(last, ad) ==
  [start |-> last.start,
   end |-> ad.end,
   confidence |-> (last.confidence + ad.confidence) \div 2,
   signals |-> [k \in DOMAIN last.signals \cup DOMAIN ad.signals |->
                  (Lookup(last.signals, k) + Lookup(ad.signals, k)) \div 2],
   method |-> last.method]

RECURSIVE MergeLoop(_, _, _)
MergeLoop(merged, rest, gap) ==
  IF rest = << >> THEN merged
  ELSE LET ad == Head(rest)
           last == merged[Len(merged)]
       IN IF ad.start - last.end <= gap
          THEN MergeLoop([merged EXCEPT ![Len(merged)] = MergeTwo(last, ad)], Tail(rest), gap)
          ELSE MergeLoop(Append(merged, ad), Tail(rest), gap)

_merge_adjacent(ads, gap) ==
  IF Len(ads) <= 1 THEN ads ELSE MergeLoop(<<ads[1]>>, Tail(ads), gap)

\* a filter with the comparison turned round
FilterShortInverted(ads, min_ad_duration) ==
  AtIndices(ads, {i \in DOMAIN ads : ads[i].end - ads[i].start <= min_ad_duration})

_filter_short(ads, min_ad_duration) ==
  AtIndices(ads, {i \in DOMAIN ads : ads[i].end - ads[i].start >= min_ad_duration})

(***************************************************************************)
(* _check_opening_ads and _propagate_context                               *)
(***************************************************************************)
OpeningSecs == 180
WindowSecs == 30
HopSecs == 15
OpeningGapSecs == 20
OpeningThreshold == Pct(30)
OpeningFloor == Pct(50)


\* a scan that goes by the classifier's confidence alone
OpeningWindowByConfidence(window_start, opening_idx, transcript, has_embeddings) ==
  LET window_idx == {i \in opening_idx : window_start <= transcript[i].start
                                         /\ transcript[i].start < window_start + Secs(WindowSecs)}
      actual_start == transcript[SetMin(window_idx)].start
      actual_end == transcript[SetMax(window_idx)].end
      window_text == JoinTexts(AtIndices([i \in DOMAIN transcript |-> transcript[i].text], window_idx))
      features == classify(window_text, actual_end - actual_start, << >>, << >>, has_embeddings)
  IN IF window_idx # {} /\ features.confidence > OpeningThreshold
     THEN <<[start |-> actual_start, end |-> actual_end,
             confidence |-> Max2(features.confidence, OpeningFloor),
             signals |-> [opening_ad |-> Unit,
                          has_sponsor |-> Flag(features.has_sponsor_phrase),
                          has_promo |-> Flag(features.has_promo_code),
                          has_url |-> Flag(features.has_url),
                          has_cta |-> Flag(features.has_call_to_action)],
             method |-> <<"opening_window">>]>>
     ELSE << >>

\* one pass of the while loop: the window that starts at window_start
OpeningWindow(window_start, opening_idx, transcript, has_embeddings) ==
  LET window_idx == {i \in opening_idx : window_start <= transcript[i].start
                                         /\ transcript[i].start < window_start + Secs(WindowSecs)}
      actual_start == transcript[SetMin(window_idx)].start
      actual_end == transcript[SetMax(window_idx)].end
      window_text == JoinTexts(AtIndices([i \in DOMAIN transcript |-> transcript[i].text], window_idx))
      features == classify(window_text, actual_end - actual_start, << >>, << >>, has_embeddings)
      is_ad_window == \/ features.confidence > OpeningThreshold
                      \/ features.has_sponsor_phrase
                      \/ features.has_promo_code
  IN IF window_idx # {} /\ is_ad_window
     THEN <<[start |-> actual_start, end |-> actual_end,
             confidence |-> Max2(features.confidence, OpeningFloor),
             signals |-> [opening_ad |-> Unit,
                          has_sponsor |-> Flag(features.has_sponsor_phrase),
                          has_promo |-> Flag(features.has_promo_code),
                          has_url |-> Flag(features.has_url),
                          has_cta |-> Flag(features.has_call_to_action)],
             method |-> <<"opening_window">>]>>
     ELSE << >>

_check_opening_ads(transcript, has_embeddings) ==
  LET opening_idx == {i \in DOMAIN transcript : transcript[i].start < Secs(OpeningSecs)}
      max_time == transcript[SetMax(opening_idx)].end
      windows == (max_time + Secs(HopSecs) - 1) \div Secs(HopSecs)
      ads == Flatten([k \in 1..windows |->
                        OpeningWindow((k - 1) * Secs(HopSecs), opening_idx, transcript, has_embeddings)])
  IN IF transcript = << >> \/ opening_idx = {} THEN << >>
     ELSE IF ads # << >> THEN _merge_adjacent(ads, Secs(OpeningGapSecs))
     ELSE ads

LookSecs == 30

\* the evidence of one transcript segment, classified on its own, for moving
\* the start ("left") or the end ("right") of an ad over it
Leans(seg, has_embeddings, side) ==
  LET f == classify(seg.text, seg.end - seg.start, << >>, << >>, has_embeddings)
  IN \/ f.confidence > Pct(25)
     \/ IF side = "left"
        THEN f.has_sponsor_phrase \/ f.has_intro_transition
        ELSE f.has_promo_code \/ f.has_outro_transition

\* an expansion that searches in the wrong direction: it looks for the
\* start among the segments after the old start
ExpandAdInward(ad, transcript, has_embeddings) ==
  LET inner == {i \in DOMAIN transcript :
                  /\ ad.start < transcript[i].start
                  /\ transcript[i].start <= ad.start + Secs(LookSecs)
                  /\ Leans(transcript[i], has_embeddings, "left")}
  IN [start |-> SetMax({ad.start} \cup {transcript[i].start : i \in inner}),
      end |-> ad.end, confidence |-> ad.confidence,
      signals |-> ad.signals, method |-> Append(ad.method, "expanded")]

\* an expansion that rescores the interval on its way
ExpandAdRescored(ad, transcript, has_embeddings) ==
  [start |-> ad.start, end |-> ad.end,
   confidence |-> Min2(ad.confidence + Pct(10), Unit),
   signals |-> ad.signals, method |-> Append(ad.method, "expanded")]

\* one pass of the loop of _propagate_context
ExpandAd(ad, transcript, has_embeddings) ==
  LET before_segs == {i \in DOMAIN transcript :
                        /\ ad.start - Secs(LookSecs) <= transcript[i].start
                        /\ transcript[i].start < ad.start}
      after_segs == {i \in DOMAIN transcript :
                        /\ ad.end < transcript[i].start
                        /\ transcript[i].start <= ad.end + Secs(LookSecs)}
      new_start == SetMin({ad.start} \cup
                     {transcript[i].start : i \in {j \in before_segs : Leans(transcript[j], has_embeddings, "left")}})
      new_end == SetMax({ad.end} \cup
                     {transcript[i].end : i \in {j \in after_segs : Leans(transcript[j], has_embeddings, "right")}})
  IN [start |-> new_start, end |-> new_end, confidence |-> ad.confidence,
      signals |-> ad.signals, method |-> Append(ad.method, "expanded")]

\* the list the loop of _propagate_context runs over: opening ads in front
WithOpening(ads, transcript, has_embeddings) ==
  LET opening_ads == _check_opening_ads(transcript, has_embeddings)
  IN IF opening_ads # << >> THEN opening_ads \o ads ELSE ads

(***************************************************************************)
(* _llm_verify                                                             *)
(***************************************************************************)
DefaultBand == [low |-> Pct(35), high |-> Pct(65)]

\* a band that takes in its two ends
InBandInclusive(confidence, band) == band.low <= confidence /\ confidence <= band.high

\* self.llm_threshold[0] < ad.confidence < self.llm_threshold[1]
InBand(confidence, band) == band.low < confidence /\ confidence < band.high

\* the endpoint answers YES or something else; any exception counts as a yes
_llm_is_ad(outcome) == outcome = "yes" \/ outcome = "fail"

\* a verification that only tags the method
BoostedInName(ad) == [ad EXCEPT !.method = Append(ad.method, "llm")]

\* ad.confidence = 0.8 and ad.method = f"{ad.method}+llm"
Boosted(ad) ==
  [ad EXCEPT !.confidence = Pct(80), !.method = Append(ad.method, "llm")]

(***************************************************************************)
(* The other two merge operations                                          *)
(***************************************************************************)
\* EnsembleAdDetector.merge_adjacent_ads: AdSegment has no method
RECURSIVE EnsembleMergeLoop(_, _, _)
EnsembleMergeLoop(merged, rest, max_ad_gap) ==
  IF rest = << >> THEN merged
  ELSE LET ad == Head(rest)
           last == merged[Len(merged)]
           both == [start |-> last.start,
                    end |-> ad.end,
                    confidence |-> (last.confidence + ad.confidence) \div 2,
                    signals |-> [k \in DOMAIN last.signals \cup DOMAIN ad.signals |->
                                   (Lookup(last.signals, k) + Lookup(ad.signals, k)) \div 2]]
       IN IF ad.start - last.end <= max_ad_gap
          THEN EnsembleMergeLoop([merged EXCEPT ![Len(merged)] = both], Tail(rest), max_ad_gap)
          ELSE EnsembleMergeLoop(Append(merged, ad), Tail(rest), max_ad_gap)

filter_short_ads(ads, min_ad_duration) ==
  AtIndices(ads, {i \in DOMAIN ads : ads[i].end - ads[i].start >= min_ad_duration})

merge_adjacent_ads(ads, max_ad_gap) ==
  IF Len(ads) <= 1 THEN ads ELSE EnsembleMergeLoop(<<ads[1]>>, Tail(ads), max_ad_gap)

\* sorted(ads, key=lambda x: x.start): stable insertion of ad into a sorted list
RECURSIVE InsertByStart(_, _)
InsertByStart(sorted, ad) ==
  IF sorted = << >> THEN <<ad>>
  ELSE IF sorted[Len(sorted)].start <= ad.start THEN Append(sorted, ad)
  ELSE Append(InsertByStart(SubSeq(sorted, 1, Len(sorted) - 1), ad), sorted[Len(sorted)])

RECURSIVE SortedByStart(_)
SortedByStart(ads) ==
  IF ads = << >> THEN << >>
  ELSE InsertByStart(SortedByStart(SubSeq(ads, 1, Len(ads) - 1)), ads[Len(ads)])

\* process_podcast.merge_overlapping_segments; buffer is 0.5 s
merge_overlapping_segments(segments, buffer) ==
  LET sorted_segs == SortedByStart(segments)
      merged[i \in 0..Len(segments)] ==
        IF i = 0 THEN << >>
        ELSE IF i = 1 THEN <<sorted_segs[1]>>
        ELSE LET seg == sorted_segs[i]
                 last == merged[i - 1][Len(merged[i - 1])]
             IN IF seg.start <= last.end + buffer
                THEN [merged[i - 1] EXCEPT ![Len(merged[i - 1])].end = Max2(last.end, seg.end)]
                ELSE Append(merged[i - 1], seg)
  IN merged[Len(segments)]

\* process_podcast.create_ffmpeg_filter: keep_segments, which the filter string
\* trims and joins in this order; current_pos after ad i is that ad's end
create_ffmpeg_filter(ad_segments, total_duration) ==
  LET current_pos(i) == IF i = 0 THEN 0 ELSE ad_segments[i].end
      before == Flatten([i \in DOMAIN ad_segments |->
                           IF ad_segments[i].start > current_pos(i - 1)
                           THEN <<[start |-> current_pos(i - 1), end |-> ad_segments[i].start]>>
                           ELSE << >>])
  IN IF ad_segments = << >> THEN << >>
     ELSE IF current_pos(Len(ad_segments)) < total_duration
     THEN Append(before, [start |-> current_pos(Len(ad_segments)), end |-> total_duration])
     ELSE before

\* LLMAdDetector._merge_adjacent
RECURSIVE LlmMergeLoop(_, _, _)
LlmMergeLoop(merged, rest, gap) ==
  IF rest = << >> THEN merged
  ELSE LET ad == Head(rest)
           last == merged[Len(merged)]
           both == [start |-> last.start,
                    end |-> ad.end,
                    confidence |-> (last.confidence + ad.confidence) \div 2,
                    text_preview |-> last.text_preview,
                    method |-> "llm_window_merged"]
       IN IF ad.start - last.end <= gap
          THEN LlmMergeLoop([merged EXCEPT ![Len(merged)] = both], Tail(rest), gap)
          ELSE LlmMergeLoop(Append(merged, ad), Tail(rest), gap)

LlmMergeAdjacent(ads, gap) ==
  IF Len(ads) <= 1 THEN ads
  ELSE LET sorted == SortedByStart(ads)
       IN LlmMergeLoop(<<sorted[1]>>, Tail(sorted), gap)

(***************************************************************************)
(* LLMAdDetector (llm_detector.py): rule-based scan, then one request per  *)
(* suspicious window                                                       *)
(***************************************************************************)
LlmWindowSecs == 45
LlmHopSecs == 15
LlmGapSecs == 20
PreviewChars == 100

\* pattern_matches of a window text: how many of the AD_PATTERNS match in it
AdPatternMatches(text) ==
  LET AdPatternsIn(phrase) ==
        CASE phrase = BroughtToYouBy -> {1, 3}
          [] phrase = UseCode -> {7}
          [] phrase = SignUp -> {11, 12}
          [] OTHER -> {}
  IN Cardinality(UNION {AdPatternsIn(text[i]) : i \in DOMAIN text})

\* a classification that keeps the window when the request fails
ClassifyWindowKeepOnError(reply) ==
  CASE reply.kind = "json" -> [is_ad |-> reply.is_ad, confidence |-> reply.confidence]
    [] reply.kind = "text_true" -> [is_ad |-> TRUE, confidence |-> Pct(60)]
    [] reply.kind = "text_other" -> [is_ad |-> FALSE, confidence |-> Pct(40)]
    [] OTHER -> [is_ad |-> TRUE, confidence |-> Pct(60)]

\* (is_ad, confidence) of _classify_window
_classify_window(reply) ==
  CASE reply.kind = "json" -> [is_ad |-> reply.is_ad, confidence |-> reply.confidence]
    [] reply.kind = "text_true" -> [is_ad |-> TRUE, confidence |-> Pct(60)]
    [] reply.kind = "text_other" -> [is_ad |-> FALSE, confidence |-> Pct(40)]
    [] OTHER -> [is_ad |-> FALSE, confidence |-> 0]

(***************************************************************************)
(* Inputs of detect                                                        *)
(***************************************************************************)
MaxSegs == 3
MaxShortFrames == 2
MidFrames == 12
LongFrames == 21
LongSegs == 15
SegSecs == 30
LongSegSecs == 4
LateStart == 100


\* a few Whisper segments of half a minute each
ShortTranscript(texts) ==
  [i \in DOMAIN texts |->
     [start |-> Secs((i - 1) * SegSecs), end |-> Secs(i * SegSecs), text |-> texts[i]]]

NoAudio == [given |-> FALSE, clip |-> << >>]

MinAdSecs == 10
MergeGapSecs == 15

(***************************************************************************)
(* State                                                                   *)
(***************************************************************************)
VARIABLES mode, has_ruptures, has_embeddings, llm_threshold, audio_path, transcript,
          pc, timestamps, signals, combined, change_points,
          classified, ads, expanded_ads, merged, filtered, verified, llmLog, result, raised,
          variant, gap, input, once, twice,
          window_start, window_ads, window_log,
          span, runs, scored,
          minimums, kept,
          confidence_threshold, suspicious_windows, ad_windows, checked, failures, last_reply,
          scan_i, above_threshold,
          jobs, local_file, requests, tasks,
          ad_segments, total_duration, merged_ads, keep_segments

config == <<mode, has_ruptures, has_embeddings, llm_threshold, audio_path, transcript>>
stages == <<timestamps, signals, combined, change_points,
            classified, ads, expanded_ads, merged, filtered, verified, llmLog, result, raised>>
two_stage == <<confidence_threshold, suspicious_windows, ad_windows, checked, failures, last_reply>>
probe == <<window_start, window_ads, window_log, span, runs, scored, minimums, kept, two_stage>>
backend == <<jobs, local_file, requests, tasks>>
cutter == <<ad_segments, total_duration, merged_ads, keep_segments>>
later == <<scan_i, above_threshold, backend, cutter>>
bench == <<variant, gap, input, once, twice, probe, later>>
vars == <<config, pc, stages, bench>>
\* what the backend and the cutter leave alone
detectors == <<config, stages, variant, gap, input, once, twice, probe, scan_i, above_threshold>>

Idle ==
  /\ timestamps = << >> /\ signals = << >> /\ combined = << >> /\ change_points = << >>
  /\ classified = << >> /\ ads = << >> /\ expanded_ads = << >> /\ merged = << >> /\ filtered = << >>
  /\ verified = << >> /\ llmLog = << >> /\ result = << >> /\ raised = "none"

\* the variables of the single-operation specifications, at rest
NoOpening == window_start = 0 /\ window_ads = << >> /\ window_log = << >>
NoClassifier == span = << >> /\ runs = << >> /\ scored = << >>
NoFilter == minimums = << >> /\ kept = << >>
NoTwoStage ==
  /\ confidence_threshold = Pct(50) /\ suspicious_windows = << >> /\ ad_windows = << >>
  /\ checked = 0 /\ failures = 0 /\ last_reply = << >>
NoProbe == NoOpening /\ NoClassifier /\ NoFilter /\ NoTwoStage
NoBackend == jobs = << >> /\ local_file = "absent" /\ requests = << >> /\ tasks = << >>
NoLater ==
  /\ scan_i = 0 /\ above_threshold = FALSE
  /\ NoBackend
  /\ ad_segments = << >> /\ total_duration = 0 /\ merged_ads = << >> /\ keep_segments = << >>

NoBench ==
  /\ variant = "none" /\ gap = 0 /\ input = << >> /\ once = << >> /\ twice = << >>
  /\ NoProbe
  /\ NoLater

Init ==
  LET \* the clips: speech, a synthetic tone of a float-encoded file with samples
      \* beyond [-1, 1], and speech followed by hiss
      Clips ==
        LET UniformClip(frame, n) == [i \in 1..n |-> frame]
            ToneFrame == [energy |-> 4 * Unit, spectral_centroid |-> 1000, is_speech |-> FALSE,
                          mfcc_mean |-> 0]
            HissFrame == [energy |-> Pct(5), spectral_centroid |-> 6000, is_speech |-> FALSE,
                          mfcc_mean |-> 40]
            MixedClip == [i \in 1..MidFrames |-> IF 2 * i <= MidFrames THEN VoiceFrame ELSE HissFrame]
        IN {UniformClip(VoiceFrame, n) : n \in 0..MaxShortFrames}
           \cup {UniformClip(ToneFrame, LongFrames), UniformClip(VoiceFrame, LongFrames), MixedClip}
  IN /\ mode \in {"fast", "balanced", "accurate"}
     /\ has_ruptures \in BOOLEAN
     /\ has_embeddings \in BOOLEAN
     /\ llm_threshold \in IF mode = "accurate"
                          THEN {DefaultBand, [low |-> Pct(50), high |-> Pct(90)]}
                          ELSE {DefaultBand}
     /\ audio_path \in {NoAudio} \cup {[given |-> TRUE, clip |-> c] : c \in Clips}
     /\ transcript \in
          LET Kinds == {PlainText, SponsorRead, <<LetMeTellYou>>, <<UseCode, BackToTheStory>>}
              ReadPlaces == {head \cup tail : head \in {{}, {1}, {1, 2, 3}},
                                              tail \in {{}, {LongSegs}, {LongSegs - 1, LongSegs}}}
              UrlPlaces == {{}, {4, LongSegs - 2}}
              \* many short segments: sponsor reads and single web addresses at the
              \* given places, the last segment possibly after a stretch without speech
              LongTranscript(reads, urls, late) ==
                [i \in 1..LongSegs |->
                   LET start == IF late /\ i = LongSegs THEN Secs(LateStart)
                                ELSE Secs((i - 1) * LongSegSecs)
                   IN [start |-> start, end |-> start + Secs(LongSegSecs),
                       text |-> IF i \in reads THEN SponsorRead
                                ELSE IF i \in urls THEN <<QuoteAtDotCom>>
                                ELSE PlainText]]
          IN UNION {{ShortTranscript(texts) : texts \in [1..n -> Kinds]} : n \in 0..MaxSegs}
             \cup {LongTranscript(reads, urls, late) :
                     reads \in ReadPlaces, urls \in UrlPlaces, late \in BOOLEAN}
     /\ Len(audio_path.clip) = LongFrames => Len(transcript) <= 1
     /\ pc = "start"
     /\ Idle
     /\ NoBench

(***************************************************************************)
(* detect, step by step                                                    *)
(***************************************************************************)
UsesAudio == audio_path.given
UsesText == transcript # << >> /\ mode \in {"balanced", "accurate"}

\* all_signals and timestamps at line 159
Collected ==
  LET a == _extract_audio_signals(audio_path.clip)
      t == _extract_text_signals(transcript, mode, has_embeddings)
  IN [all_signals |-> (IF UsesText THEN t.signals ELSE << >>)
                      @@ (IF UsesAudio THEN a.signals ELSE << >>),
      timestamps |-> IF UsesAudio THEN a.timestamps ELSE t.timestamps]

\* "No signals extracted!": return []
NoSignals ==
  /\ pc = "start"
  /\ ~UsesAudio /\ ~UsesText
  /\ pc' = "returned"
  /\ result' = << >>
  /\ UNCHANGED <<config, bench, timestamps, signals, combined, change_points, classified, ads,
                 expanded_ads, merged, filtered, verified, llmLog, raised>>

ExtractSignals ==
  /\ pc = "start"
  /\ UsesAudio \/ UsesText
  /\ \E collected \in {Collected} :
       /\ timestamps' = collected.timestamps
       \* _align_signals
       /\ signals' = [name \in DOMAIN collected.all_signals |->
                        AlignOne(collected.all_signals[name], Len(collected.timestamps))]
  /\ pc' = "combine"
  /\ UNCHANGED <<config, bench, combined, change_points, classified, ads,
                 expanded_ads, merged, filtered, verified, llmLog, result, raised>>

\* signal.min() of an array without elements raises ValueError out of detect
CombineRaises ==
  /\ pc = "combine"
  /\ timestamps = << >>
  /\ raised' = "ValueError"
  /\ pc' = "raised"
  /\ UNCHANGED <<config, bench, timestamps, signals, combined, change_points, classified, ads,
                 expanded_ads, merged, filtered, verified, llmLog, result>>

CombineSignals ==
  LET \* self.weights, in hundredths
      weights ==
        CASE mode = "fast" ->
               [audio_energy |-> 25, audio_spectral |-> 25, audio_change |-> 30, audio_speech |-> 20]
          [] mode = "balanced" ->
               [audio_energy |-> 15, audio_spectral |-> 15, audio_change |-> 15,
                keyword |-> 30, transition |-> 25]
          [] OTHER ->
               [audio_energy |-> 10, audio_spectral |-> 10, audio_change |-> 10,
                keyword |-> 25, transition |-> 15, embedding |-> 20, boundary |-> 10]
  IN /\ pc = "combine"
     /\ timestamps # << >>
     /\ combined' = _combine_signals(signals, weights)
     /\ pc' = "change_points"
     /\ UNCHANGED <<config, bench, timestamps, signals, change_points, classified, ads,
                    expanded_ads, merged, filtered, verified, llmLog, result, raised>>

DetectChangePoints ==
  /\ pc = "change_points"
  /\ change_points' \in _detect_change_points(combined, timestamps, has_ruptures)
  /\ pc' = "classify"
  /\ UNCHANGED <<config, bench, timestamps, signals, combined, classified, ads,
                 expanded_ads, merged, filtered, verified, llmLog, result, raised>>

ClassifySegments ==
  LET intervals == ScoredIntervals(timestamps, change_points)
      _classify_segments ==
        Flatten([i \in DOMAIN intervals |->
                   ClassifyInterval(intervals[i].start, intervals[i].end, intervals[i].mask,
                                    combined, signals, transcript, mode, has_embeddings)])
  IN /\ pc = "classify"
     /\ classified' = _classify_segments
     /\ pc' = "propagate"
     /\ UNCHANGED <<config, bench, timestamps, signals, combined, change_points,
                    ads, expanded_ads, merged, filtered, verified, llmLog, result, raised>>

\* ads is the list the expansion loop runs over (line 434)
PropagateContext ==
  /\ pc = "propagate"
  /\ ads' = WithOpening(classified, transcript, has_embeddings)
  \* _propagate_context
  /\ expanded_ads' = [i \in DOMAIN ads' |-> ExpandAd(ads'[i], transcript, has_embeddings)]
  /\ pc' = "merge"
  /\ UNCHANGED <<config, bench, timestamps, signals, combined, change_points, classified,
                 merged, filtered, verified, llmLog, result, raised>>

MergeAdjacent ==
  /\ pc = "merge"
  /\ merged' = _merge_adjacent(expanded_ads, Secs(MergeGapSecs))
  /\ pc' = "filter"
  /\ UNCHANGED <<config, bench, timestamps, signals, combined, change_points, classified, ads,
                 expanded_ads, filtered, verified, llmLog, result, raised>>

FilterShort ==
  /\ pc = "filter"
  /\ filtered' = _filter_short(merged, Secs(MinAdSecs))
  /\ pc' = IF mode = "accurate" /\ transcript # << >> THEN "llm" ELSE "format"
  /\ verified' = IF mode = "accurate" /\ transcript # << >> THEN << >> ELSE filtered'
  /\ UNCHANGED <<config, bench, timestamps, signals, combined, change_points, classified, ads,
                 expanded_ads, merged, llmLog, result, raised>>

\* the interval the loop of _llm_verify looks at next
NextAd == filtered[Len(llmLog) + 1]

\* outside the band: appended as it is, no request
LlmPass ==
  /\ pc = "llm"
  /\ Len(llmLog) < Len(filtered)
  /\ ~InBand(NextAd.confidence, llm_threshold)
  /\ verified' = Append(verified, NextAd)
  /\ llmLog' = Append(llmLog, [ad |-> NextAd, outcome |-> "pass", at |-> Len(verified) + 1])
  /\ UNCHANGED <<config, bench, pc, timestamps, signals, combined, change_points, classified, ads,
                 expanded_ads, merged, filtered, result, raised>>

\* inside the band: one request, answered YES, answered otherwise, or failing
LlmAsk ==
  /\ pc = "llm"
  /\ Len(llmLog) < Len(filtered)
  /\ InBand(NextAd.confidence, llm_threshold)
  /\ \E outcome \in {"yes", "no", "fail"} :
       /\ verified' = IF _llm_is_ad(outcome) THEN Append(verified, Boosted(NextAd)) ELSE verified
       /\ llmLog' = Append(llmLog, [ad |-> NextAd, outcome |-> outcome,
                                    at |-> IF _llm_is_ad(outcome) THEN Len(verified) + 1 ELSE 0])
  /\ UNCHANGED <<config, bench, pc, timestamps, signals, combined, change_points, classified, ads,
                 expanded_ads, merged, filtered, result, raised>>

LlmDone ==
  /\ pc = "llm"
  /\ Len(llmLog) = Len(filtered)
  /\ pc' = "format"
  /\ UNCHANGED <<config, bench, stages>>

Return ==
  LET _format_result(ad) ==
        [start |-> ad.start, end |-> ad.end, confidence |-> Round3(ad.confidence),
         signals |-> [k \in DOMAIN ad.signals |-> Round3(ad.signals[k])],
         method |-> ad.method]
  IN /\ pc = "format"
     /\ result' = [i \in DOMAIN verified |-> _format_result(verified[i])]
     /\ pc' = "returned"
     /\ UNCHANGED <<config, bench, timestamps, signals, combined, change_points, classified, ads,
                    expanded_ads, merged, filtered, verified, llmLog, raised>>

Next ==
  \/ NoSignals
  \/ ExtractSignals
  \/ CombineRaises
  \/ CombineSignals
  \/ DetectChangePoints
  \/ ClassifySegments
  \/ PropagateContext
  \/ MergeAdjacent
  \/ FilterShort
  \/ LlmPass
  \/ LlmAsk
  \/ LlmDone
  \/ Return

Spec == Init /\ [][Next]_vars

(***************************************************************************)
(* The three merge operations on their own, over all short lists           *)
(***************************************************************************)
MaxAds == 3
MaxTime == 2

\* the k-th interval of a list, dressed as the variant's segment class
Dress(v, iv, k) ==
  LET confidence == Pct(30) + k * Pct(20)
      sigs == IF k % 2 = 1 THEN [keyword |-> Pct(60)] ELSE [boundary |-> Pct(50), keyword |-> 0]
  IN CASE v = "hybrid" ->
            [start |-> iv[1], end |-> iv[2], confidence |-> confidence,
             signals |-> sigs, method |-> <<"balanced">>]
       [] v = "ensemble" ->
            [start |-> iv[1], end |-> iv[2], confidence |-> confidence, signals |-> sigs]
       [] OTHER ->
            [start |-> iv[1], end |-> iv[2], confidence |-> confidence,
             text_preview |-> k, method |-> "llm_window"]

\* intervals with start <= end; the lists take them in any order
Intervals == {iv \in (0..MaxTime) \X (0..MaxTime) : iv[1] <= iv[2]}

MergeOf(v, list, g) ==
  CASE v = "hybrid" -> _merge_adjacent(list, g)
    [] v = "ensemble" -> merge_adjacent_ads(list, g)
    [] OTHER -> LlmMergeAdjacent(list, g)

InitMerge ==
  /\ mode = "fast" /\ has_ruptures = FALSE /\ has_embeddings = FALSE
  /\ llm_threshold = DefaultBand /\ audio_path = NoAudio /\ transcript = << >>
  /\ Idle
  /\ variant \in {"hybrid", "ensemble", "llm"}
  /\ gap \in {0, 1}
  /\ \E n \in 0..MaxAds : \E ivs \in [1..n -> Intervals] :
       input = [k \in 1..n |-> Dress(variant, ivs[k], k)]
  /\ once = << >> /\ twice = << >>
  /\ NoProbe /\ NoLater
  /\ pc = "merge_once"

MergeOnce ==
  /\ pc = "merge_once"
  /\ once' = MergeOf(variant, input, gap)
  /\ pc' = "merge_twice"
  /\ UNCHANGED <<config, stages, probe, later, variant, gap, input, twice>>

MergeTwice ==
  /\ pc = "merge_twice"
  /\ twice' = MergeOf(variant, once, gap)
  /\ pc' = "merged"
  /\ UNCHANGED <<config, stages, probe, later, variant, gap, input, once>>

NextMerge == MergeOnce \/ MergeTwice

SpecMerge == InitMerge /\ [][NextMerge]_vars

(***************************************************************************)
(* _check_opening_ads on its own, one window of the while loop at a time   *)
(***************************************************************************)
MaxOpeningSegs == 3

InitOpening ==
  /\ mode = "balanced" /\ has_ruptures = FALSE /\ has_embeddings \in BOOLEAN
  /\ llm_threshold = DefaultBand /\ audio_path = NoAudio
  /\ transcript \in
       LET \* "Save 20 dollars on your first order."
           SaveTwenty == [len |-> 36, cls |-> {<<"promo", 5>>}, kw |-> {}, tr |-> {},
                          lo |-> 0, hi |-> 0]
           OpeningKinds == {PlainText, SponsorRead, <<SaveTwenty>>, <<QuoteAtDotCom>>}
           \* segments of equal length from offset on
           OpeningTranscript(texts, secs, offset) ==
             [i \in DOMAIN texts |->
                [start |-> Secs(offset + (i - 1) * secs), end |-> Secs(offset + i * secs),
                 text |-> texts[i]]]
       IN UNION {{OpeningTranscript(texts, secs, offset) :
                    texts \in [1..n -> OpeningKinds], secs \in {30, 45}, offset \in {0, 150}} :
                 n \in 0..MaxOpeningSegs}
  /\ Idle
  /\ NoBench
  /\ pc = "opening"

\* opening_segs (line 501) and max_time (line 509)
OpeningIdx == {i \in DOMAIN transcript : transcript[i].start < Secs(OpeningSecs)}

\* "if not transcript" and "if not opening_segs": return []
NoOpeningSegs ==
  /\ pc = "opening"
  /\ transcript = << >> \/ OpeningIdx = {}
  /\ pc' = "scanned"
  /\ UNCHANGED <<config, stages, bench>>

\* one pass of the while loop; window_log keeps what classify returned
ScanWindow ==
  /\ pc = "opening"
  /\ OpeningIdx # {}
  /\ window_start < transcript[SetMax(OpeningIdx)].end
  /\ LET window_segs == {i \in OpeningIdx : window_start <= transcript[i].start
                                            /\ transcript[i].start < window_start + Secs(WindowSecs)}
         window_text == JoinTexts(AtIndices([i \in DOMAIN transcript |-> transcript[i].text],
                                            window_segs))
         \* what classify returns for the window, and its verdict at threshold 0.3
         features == classify(window_text,
                              transcript[SetMax(window_segs)].end
                                - transcript[SetMin(window_segs)].start,
                              << >>, << >>, has_embeddings)
         reported == OpeningWindow(window_start, OpeningIdx, transcript, has_embeddings)
     IN /\ window_ads' = window_ads \o reported
        /\ window_log' = IF window_segs = {} THEN window_log
                         ELSE Append(window_log,
                                     [window_start |-> window_start,
                                      is_ad |-> features.confidence >= OpeningThreshold,
                                      features |-> features,
                                      reported |-> reported])
  /\ window_start' = window_start + Secs(HopSecs)
  /\ UNCHANGED <<config, stages, later, pc, variant, gap, input, once, twice, span, runs, scored,
                 minimums, kept, two_stage>>

\* the loop is over: "Merge overlapping windows" and return
MergeWindows ==
  /\ pc = "opening"
  /\ OpeningIdx # {}
  /\ window_start >= transcript[SetMax(OpeningIdx)].end
  /\ window_ads' = IF window_ads # << >>
                   THEN _merge_adjacent(window_ads, Secs(OpeningGapSecs))
                   ELSE window_ads
  /\ pc' = "scanned"
  /\ UNCHANGED <<config, stages, later, variant, gap, input, once, twice, window_start, window_log,
                 span, runs, scored, minimums, kept, two_stage>>

NextOpening == NoOpeningSegs \/ ScanWindow \/ MergeWindows

SpecOpening == InitOpening /\ [][NextOpening]_vars

(***************************************************************************)
(* AdClassifier on its own: extract_features on one span, with and without *)
(* the embedding model, and _compute_confidence on any indicators          *)
(***************************************************************************)
MaxPhrases == 3
MaxKeywords == 6
Neighbours == {<< >>, PlainText}

IndicatorNames ==
  {"has_sponsor", "has_promo", "has_url", "has_cta", "has_intro", "has_outro",
   "is_standard_length", "is_topic_island"}
KeywordScores == {Min2((k * Unit) \div 5, Unit) : k \in 0..MaxKeywords}

InitClassifier ==
  /\ mode = "balanced" /\ has_ruptures = FALSE /\ has_embeddings = FALSE
  /\ llm_threshold = DefaultBand /\ audio_path = NoAudio /\ transcript = << >>
  /\ Idle
  /\ variant = "none" /\ gap = 0 /\ input = << >> /\ once = << >> /\ twice = << >>
  /\ NoOpening /\ NoFilter /\ NoTwoStage /\ NoLater
  /\ runs = << >> /\ scored = << >>
  /\ \/ /\ pc = "classifier"
        /\ span \in
             LET Phrases == {Filler, LongFiller, BroughtToYouBy, QuoteAtDotCom, UseCode, SignUp,
                             LetMeTellYou, BackToTheStory}
             IN [text : UNION {[1..n -> Phrases] : n \in 0..MaxPhrases},
                 duration : {Secs(30), Secs(45)},
                 text_before : Neighbours, text_after : Neighbours]
     \/ pc = "confidence" /\ span = << >>

\* one AdClassifier, built with or without sentence_transformers, looks at
\* the span; the text detector of the same process scores its text
ExtractFeatures(embedding_model) ==
  /\ pc = "classifier"
  /\ embedding_model \notin DOMAIN runs
  /\ runs' = runs @@ (embedding_model :>
               [features |-> extract_features(span.text, span.duration, span.text_before,
                                              span.text_after, embedding_model),
                embedding_score |-> embedding_score(span.text, embedding_model),
                boundary_score |-> boundary_score(span.text_before, span.text, embedding_model)])
  /\ UNCHANGED <<config, stages, later, pc, variant, gap, input, once, twice,
                 window_start, window_ads, window_log, span, scored, minimums, kept, two_stage>>

\* _compute_confidence on some indicators, and on the same with one of them
\* turned on or the keyword score raised
ComputeConfidence ==
  /\ pc = "confidence"
  /\ \E f \in [keyword_score : KeywordScores, has_sponsor : BOOLEAN, has_promo : BOOLEAN,
                has_url : BOOLEAN, has_cta : BOOLEAN, has_intro : BOOLEAN, has_outro : BOOLEAN,
                is_standard_length : BOOLEAN, is_topic_island : BOOLEAN],
        name \in IndicatorNames \cup {"keyword_score"}, k \in KeywordScores :
       LET g == IF name = "keyword_score"
                THEN [f EXCEPT !.keyword_score = Max2(f.keyword_score, k)]
                ELSE [f EXCEPT ![name] = TRUE]
       IN scored' = [low |-> f, high |-> g,
                     confidence_low |-> _compute_confidence(f),
                     confidence_high |-> _compute_confidence(g)]
  /\ pc' = "scored"
  /\ UNCHANGED <<config, stages, later, variant, gap, input, once, twice,
                 window_start, window_ads, window_log, span, runs, minimums, kept, two_stage>>

NextClassifier == (\E embedding_model \in BOOLEAN : ExtractFeatures(embedding_model)) \/ ComputeConfidence

SpecClassifier == InitClassifier /\ [][NextClassifier]_vars

(***************************************************************************)
(* The two duration filters on their own, with two minimum durations       *)
(***************************************************************************)
MinDurations == 0..(MaxTime + 1)

FilterOf(v, list, m) ==
  IF v = "hybrid" THEN _filter_short(list, m) ELSE filter_short_ads(list, m)

InitFilter ==
  /\ mode = "fast" /\ has_ruptures = FALSE /\ has_embeddings = FALSE
  /\ llm_threshold = DefaultBand /\ audio_path = NoAudio /\ transcript = << >>
  /\ Idle
  /\ variant \in {"hybrid", "ensemble"}
  /\ gap = 0 /\ once = << >> /\ twice = << >>
  /\ \E n \in 0..MaxAds : \E ivs \in [1..n -> Intervals] :
       input = [k \in 1..n |-> Dress(variant, ivs[k], k)]
  /\ NoOpening /\ NoClassifier /\ NoTwoStage /\ NoLater
  /\ \E m1 \in MinDurations, m2 \in MinDurations : m1 <= m2 /\ minimums = <<m1, m2>>
  /\ kept = << >>
  /\ pc = "filter_low"

\* the detector built with the smaller min_ad_duration filters the list
FilterLow ==
  /\ pc = "filter_low"
  /\ kept' = <<FilterOf(variant, input, minimums[1])>>
  /\ pc' = "filter_high"
  /\ UNCHANGED <<config, stages, later, variant, gap, input, once, twice,
                 window_start, window_ads, window_log, span, runs, scored, minimums, two_stage>>

\* the detector built with the larger min_ad_duration filters the same list
FilterHigh ==
  /\ pc = "filter_high"
  /\ kept' = Append(kept, FilterOf(variant, input, minimums[2]))
  /\ pc' = "filtered"
  /\ UNCHANGED <<config, stages, later, variant, gap, input, once, twice,
                 window_start, window_ads, window_log, span, runs, scored, minimums, two_stage>>

NextFilter == FilterLow \/ FilterHigh

SpecFilter == InitFilter /\ [][NextFilter]_vars

(***************************************************************************)
(* LLMAdDetector.detect, one suspicious window at a time                   *)
(***************************************************************************)
MaxLlmSegs == 2

InitLlm ==
  /\ mode = "fast" /\ has_ruptures = FALSE /\ has_embeddings = FALSE
  /\ llm_threshold = DefaultBand /\ audio_path = NoAudio
  /\ transcript \in
       UNION {{ShortTranscript(texts) :
                 texts \in [1..n -> {PlainText, SponsorRead, <<UseCode, BackToTheStory>>}]} :
              n \in 0..MaxLlmSegs}
  /\ Idle
  /\ variant = "none" /\ gap = 0 /\ input = << >> /\ once = << >> /\ twice = << >>
  /\ NoOpening /\ NoClassifier /\ NoFilter /\ NoLater
  /\ confidence_threshold \in {Pct(50), Pct(70)}
  /\ suspicious_windows = << >> /\ ad_windows = << >>
  /\ checked = 0 /\ failures = 0 /\ last_reply = << >>
  /\ pc = "stage1"

\* "if not transcript: return []"
LlmNoTranscript ==
  /\ pc = "stage1"
  /\ transcript = << >>
  /\ pc' = "two_stage_returned"
  /\ UNCHANGED <<config, stages, bench>>

\* stage 1: the rule-based scan
LlmStage1 ==
  LET \* stage 1 of detect, for a transcript that is not empty
      SuspiciousWindows ==
        LET max_time == SetMax({transcript[i].end : i \in DOMAIN transcript})
            windows == (max_time + Secs(LlmHopSecs) - 1) \div Secs(LlmHopSecs)
            \* one pass of the while loop, with window_start = from
            SuspiciousWindow(from) ==
              LET window_idx == {i \in DOMAIN transcript :
                                   /\ from <= transcript[i].start
                                   /\ transcript[i].start < from + Secs(LlmWindowSecs)}
                  window_text == TextIn(transcript, from, from + Secs(LlmWindowSecs))
              IN IF window_idx # {} /\ AdPatternMatches(window_text) >= 1
                 THEN <<[start |-> transcript[SetMin(window_idx)].start,
                         end |-> transcript[SetMax(window_idx)].end,
                         text |-> window_text,
                         pattern_count |-> AdPatternMatches(window_text)]>>
                 ELSE << >>
        IN Flatten([k \in 1..windows |-> SuspiciousWindow((k - 1) * Secs(LlmHopSecs))])
  IN /\ pc = "stage1"
     /\ transcript # << >>
     /\ suspicious_windows' = SuspiciousWindows
     /\ pc' = "stage2"
     /\ UNCHANGED <<config, stages, later, variant, gap, input, once, twice,
                    window_start, window_ads, window_log, span, runs, scored, minimums, kept,
                    confidence_threshold, ad_windows, checked, failures, last_reply>>

\* stage 2, one pass of the for loop: one request, whatever comes back
LlmVerifyWindow ==
  LET \* what can come back from the request of _classify_window: an exception
      \* (connection, timeout, body that is no JSON), a response that is JSON but no
      \* object, a JSON object, or text that is no JSON with or without "true" in it
      Replies ==
        {[kind |-> k, is_ad |-> FALSE, confidence |-> 0] :
           k \in {"error", "not_object", "text_true", "text_other"}}
        \cup {[kind |-> "json", is_ad |-> b, confidence |-> c] : b \in BOOLEAN, c \in {Pct(50), Pct(90)}}
  IN /\ pc = "stage2"
     /\ checked < Len(suspicious_windows)
     /\ \E reply \in Replies :
          LET window == suspicious_windows[checked + 1]
              verdict == _classify_window(reply)
              is_added == verdict.is_ad /\ verdict.confidence >= confidence_threshold
              \* the AdSegment appended for a verified window; the preview is cut
              \* after the phrases that fit in 100 characters
              segment == [start |-> window.start, end |-> window.end,
                          confidence |-> verdict.confidence,
                          text_preview |->
                            AtIndices(window.text,
                                      {i \in DOMAIN window.text :
                                         PhraseStart(window.text, i) + window.text[i].len
                                           <= PreviewChars}),
                          method |-> "llm_verified"]
          IN /\ ad_windows' = IF is_added THEN Append(ad_windows, segment) ELSE ad_windows
             /\ last_reply' = [kind |-> reply.kind, is_ad |-> verdict.is_ad,
                               confidence |-> verdict.confidence, added |-> is_added,
                               held |-> Len(ad_windows)]
             /\ failures' = IF reply.kind \in {"error", "not_object"} /\ failures < Len(suspicious_windows)
                            THEN failures + 1 ELSE failures
     /\ checked' = checked + 1
     /\ UNCHANGED <<config, stages, later, pc, variant, gap, input, once, twice,
                    window_start, window_ads, window_log, span, runs, scored, minimums, kept,
                    confidence_threshold, suspicious_windows>>

\* the loop is over: merge (gap 20 s), format, return
LlmReturn ==
  LET LlmFormatResult(ad) ==
        [start |-> ad.start, end |-> ad.end, confidence |-> Round3(ad.confidence),
         text_preview |-> ad.text_preview, method |-> ad.method]
  IN /\ pc = "stage2"
     /\ checked = Len(suspicious_windows)
     /\ result' = [i \in DOMAIN LlmMergeAdjacent(ad_windows, Secs(LlmGapSecs)) |->
                     LlmFormatResult(LlmMergeAdjacent(ad_windows, Secs(LlmGapSecs))[i])]
     /\ pc' = "two_stage_returned"
     /\ UNCHANGED <<config, bench, timestamps, signals, combined, change_points, classified, ads,
                    expanded_ads, merged, filtered, verified, llmLog, raised>>

NextLlm == LlmNoTranscript \/ LlmStage1 \/ LlmVerifyWindow \/ LlmReturn

SpecLlm == InitLlm /\ [][NextLlm]_vars

(***************************************************************************)
(* The fallbacks of the two change point searches, on a series of their    *)
(* own: EnsembleAdDetector.detect_change_points without ruptures scans for *)
(* threshold crossings, HybridAdDetector._detect_change_points for peaks   *)
(* of the gradient                                                         *)
(***************************************************************************)
MaxSeries == 12
MaxShortSeries == 6
EnsembleMinSamples == 5

InitChange ==
  /\ mode = "fast" /\ has_ruptures = FALSE /\ has_embeddings = FALSE
  /\ llm_threshold = DefaultBand /\ audio_path = NoAudio /\ transcript = << >>
  /\ combined \in UNION {[1..n -> {Pct(10), Pct(70)}] : n \in 0..MaxSeries}
                  \cup UNION {[1..n -> {Pct(10), Pct(40), Pct(70)}] : n \in 0..MaxShortSeries}
  /\ timestamps = [k \in DOMAIN combined |-> (k - 1) * FrameTicks]
  /\ signals = << >> /\ change_points = << >>
  /\ classified = << >> /\ ads = << >> /\ expanded_ads = << >> /\ merged = << >> /\ filtered = << >>
  /\ verified = << >> /\ llmLog = << >> /\ result = << >> /\ raised = "none"
  /\ variant = "none" /\ gap = 0 /\ input = << >> /\ once = << >> /\ twice = << >>
  /\ NoProbe
  /\ pc \in {"threshold", "gradient"}
  /\ scan_i = 1
  /\ above_threshold = (Len(combined) >= EnsembleMinSamples /\ combined[1] > Pct(40))
  /\ NoBackend
  /\ ad_segments = << >> /\ total_duration = 0 /\ merged_ads = << >> /\ keep_segments = << >>

\* a scan that never leaves the side it started on
ThresholdStepStuck ==
  /\ pc = "threshold"
  /\ Len(combined) >= EnsembleMinSamples
  /\ scan_i < Len(combined)
  /\ LET curr_above == combined[scan_i + 1] > Pct(40)
     IN change_points' = IF curr_above # above_threshold
                         THEN Append(change_points, timestamps[scan_i + 1])
                         ELSE change_points
  /\ scan_i' = scan_i + 1
  /\ UNCHANGED <<config, pc, timestamps, signals, combined, classified, ads, expanded_ads,
                 merged, filtered, verified, llmLog, result, raised,
                 variant, gap, input, once, twice, probe, above_threshold, backend, cutter>>

\* one pass of "for i in range(1, len(signal))"; scan_i is i
ThresholdStep ==
  /\ pc = "threshold"
  /\ Len(combined) >= EnsembleMinSamples
  /\ scan_i < Len(combined)
  /\ LET curr_above == combined[scan_i + 1] > Pct(40)
     IN /\ change_points' = IF curr_above # above_threshold
                            THEN Append(change_points, timestamps[scan_i + 1])
                            ELSE change_points
        /\ above_threshold' = curr_above
  /\ scan_i' = scan_i + 1
  /\ UNCHANGED <<config, pc, timestamps, signals, combined, classified, ads, expanded_ads,
                 merged, filtered, verified, llmLog, result, raised,
                 variant, gap, input, once, twice, probe, backend, cutter>>

\* "return []" of a series under 5 samples, and "return change_points"
ThresholdReturn ==
  /\ pc = "threshold"
  /\ Len(combined) < EnsembleMinSamples \/ scan_i >= Len(combined)
  /\ pc' = "threshold_done"
  /\ UNCHANGED <<config, stages, bench>>

\* _detect_change_points where ruptures is not installed
GradientFallback ==
  /\ pc = "gradient"
  /\ \E found \in _detect_change_points(combined, timestamps, has_ruptures) :
       change_points' = found
  /\ pc' = "gradient_done"
  /\ UNCHANGED <<config, timestamps, signals, combined, classified, ads, expanded_ads,
                 merged, filtered, verified, llmLog, result, raised, bench>>

NextChange == ThresholdStep \/ ThresholdReturn \/ GradientFallback

SpecChange == InitChange /\ [][NextChange]_vars

(***************************************************************************)
(* The backend (src/backend/main.py): POST /process, GET /status and GET   *)
(* /audio handlers on NumWorkers uvicorn workers that share the SQLite job *)
(* table and the processed directory, and the background tasks.  A handler *)
(* is a coroutine without an await, so the handlers of one worker run one  *)
(* after the other; the workers are processes and the background tasks     *)
(* threads, so their steps interleave.  All requests are for one episode.  *)
(***************************************************************************)
MaxRequests == 2
NumWorkers == 2

\* the job id is a digest of "episode_id:audio_url"; the pair stands for it
generate_job_id(episode_id, audio_url) == <<episode_id, audio_url>>

\* a shell argument is its sequence of characters, each one named
_validate_shell_arg(value) ==
  \A k \in DOMAIN value :
    value[k] \notin {"backtick", "dollar", "semicolon", "pipe", "ampersand", "less", "greater",
                     "backslash", "paren", "brace", "bracket", "newline", "return", "nul"}

\* UPDATE jobs SET ... WHERE job_id = ?
update_job(table, job_id, fields) ==
  IF job_id \in DOMAIN table THEN [table EXCEPT ![job_id] = fields @@ @] ELSE table

InitBackend ==
  /\ mode = "fast" /\ has_ruptures = FALSE /\ has_embeddings = FALSE
  /\ llm_threshold = DefaultBand /\ audio_path = NoAudio /\ transcript = << >>
  /\ Idle /\ NoBench /\ pc = "serving"
  /\ local_file \in {"absent", "whole"}

\* POST /process, lines 279-289: the job id and "if local_path.exists()"
ProcessCheckFile ==
  /\ Len(requests) < MaxRequests
  /\ \E w \in 1..NumWorkers, title \in {<<"letter", "quote">>, <<"letter", "dollar">>} :
       \* the handlers of worker w wait while one of them is running
       /\ \A r \in DOMAIN requests :
            requests[r].pc \in {"get_job", "create"} => requests[r].worker # w
       /\ requests' = Append(requests,
            IF local_file # "absent"
            THEN [endpoint |-> "process", pc |-> "done", response |-> "complete"]
            ELSE [endpoint |-> "process", pc |-> "get_job", worker |-> w,
                  job_id |-> generate_job_id("episode", <<"letter", "slash">>),
                  audio_url |-> <<"letter", "slash">>,
                  title |-> title, podcast_title |-> <<"letter">>])
  /\ UNCHANGED <<detectors, pc, jobs, local_file, tasks, cutter>>

\* lines 291-300: "existing_job = get_job(job_id)"
ProcessGetJob(r) ==
  /\ requests[r].pc = "get_job"
  /\ requests' =
       IF requests[r].job_id \in DOMAIN jobs
       THEN [requests EXCEPT ![r] = [endpoint |-> "process", pc |-> "done",
                                     response |-> jobs[requests[r].job_id].status]]
       ELSE [requests EXCEPT ![r].pc = "create"]
  /\ UNCHANGED <<detectors, pc, jobs, local_file, tasks, cutter>>

\* lines 302-317: create_job is INSERT OR IGNORE; the task runs after the response
ProcessCreate(r) ==
  /\ requests[r].pc = "create"
  /\ jobs' = jobs @@ (requests[r].job_id :>
               [status |-> "queued", progress |-> 0, processed_audio_url |-> "", error |-> ""])
  /\ tasks' = Append(tasks,
       [job_id |-> requests[r].job_id, audio_url |-> requests[r].audio_url,
        title |-> requests[r].title, podcast_title |-> requests[r].podcast_title,
        pc |-> "pending", connected |-> FALSE, commands |-> 0])
  /\ requests' = [requests EXCEPT ![r] = [endpoint |-> "process", pc |-> "done",
                                          response |-> "queued"]]
  /\ UNCHANGED <<detectors, pc, local_file, cutter>>

\* GET /status/{job_id}
get_status ==
  /\ Len(requests) < MaxRequests
  /\ \E w \in 1..NumWorkers :
       \* the handlers of worker w wait while one of them is running
       /\ \A r \in DOMAIN requests :
            requests[r].pc \in {"get_job", "create"} => requests[r].worker # w
       /\ LET job_id == generate_job_id("episode", <<"letter", "slash">>)
          IN requests' = Append(requests,
               [endpoint |-> "status", pc |-> "done",
                response |-> IF local_file # "absent" THEN "complete"
                             ELSE IF job_id \notin DOMAIN jobs THEN "404"
                             ELSE jobs[job_id].status])
  /\ UNCHANGED <<detectors, pc, jobs, local_file, tasks, cutter>>

\* GET /audio/{job_id}
get_audio ==
  /\ Len(requests) < MaxRequests
  /\ \E w \in 1..NumWorkers :
       \* the handlers of worker w wait while one of them is running
       /\ \A r \in DOMAIN requests :
            requests[r].pc \in {"get_job", "create"} => requests[r].worker # w
       /\ requests' = Append(requests,
            [endpoint |-> "audio", pc |-> "done",
             response |-> IF local_file # "absent" THEN "file" ELSE "404"])
  /\ UNCHANGED <<detectors, pc, jobs, local_file, tasks, cutter>>

\* the end of a task in an error branch or an except clause
Failed(t, message) ==
  /\ jobs' = update_job(jobs, tasks[t].job_id, [status |-> "error", error |-> message])
  /\ tasks' = [tasks EXCEPT ![t].pc = "done"]

\* line 179
TaskDownloading(t) ==
  /\ tasks[t].pc = "pending"
  /\ jobs' = update_job(jobs, tasks[t].job_id, [status |-> "downloading", progress |-> 10])
  /\ tasks' = [tasks EXCEPT ![t].pc = "validate"]
  /\ UNCHANGED <<detectors, pc, local_file, requests, cutter>>

\* a validation that lets every argument through
TaskValidateNothing(t) ==
  /\ tasks[t].pc = "validate"
  /\ UNCHANGED jobs
  /\ tasks' = [tasks EXCEPT ![t].pc = "connect"]
  /\ UNCHANGED <<detectors, pc, local_file, requests, cutter>>

\* lines 182-189
TaskValidate(t) ==
  /\ tasks[t].pc = "validate"
  /\ IF /\ _validate_shell_arg(tasks[t].audio_url)
        /\ _validate_shell_arg(tasks[t].title)
        /\ _validate_shell_arg(tasks[t].podcast_title)
     THEN UNCHANGED jobs /\ tasks' = [tasks EXCEPT ![t].pc = "connect"]
     ELSE Failed(t, "Invalid input characters")
  /\ UNCHANGED <<detectors, pc, local_file, requests, cutter>>

\* lines 192-207: get_ssh_client connects or raises
TaskConnect(t) ==
  /\ tasks[t].pc = "connect"
  /\ \/ /\ jobs' = update_job(jobs, tasks[t].job_id,
                              [status |-> "transcribing", progress |-> 30])
        /\ tasks' = [tasks EXCEPT ![t].pc = "exec", ![t].connected = TRUE]
     \/ Failed(t, "Connection error to processing server")
     \/ Failed(t, "An unexpected error occurred")
  /\ UNCHANGED <<detectors, pc, local_file, requests, cutter>>

\* lines 210-222: the remote run ends with exit status 0, with another one, or raises
TaskExec(t) ==
  /\ tasks[t].pc = "exec"
  /\ \/ /\ jobs' = update_job(jobs, tasks[t].job_id, [status |-> "cutting", progress |-> 80])
        /\ tasks' = [tasks EXCEPT ![t].pc = "copy", ![t].commands = @ + 1]
     \/ /\ jobs' = update_job(jobs, tasks[t].job_id,
                              [status |-> "error", error |-> "Processing failed on remote server"])
        /\ tasks' = [tasks EXCEPT ![t].pc = "done", ![t].commands = @ + 1]
     \/ Failed(t, "Connection error to processing server")
  /\ UNCHANGED <<detectors, pc, local_file, requests, cutter>>

\* lines 230-239: docker cp
TaskCopy(t) ==
  /\ tasks[t].pc = "copy"
  /\ \/ UNCHANGED jobs /\ tasks' = [tasks EXCEPT ![t].pc = "sftp", ![t].commands = @ + 1]
     \/ /\ jobs' = update_job(jobs, tasks[t].job_id,
                              [status |-> "error", error |-> "Failed to retrieve processed file"])
        /\ tasks' = [tasks EXCEPT ![t].pc = "done", ![t].commands = @ + 1]
     \/ Failed(t, "Connection error to processing server")
  /\ UNCHANGED <<detectors, pc, local_file, requests, cutter>>

\* lines 242-244: sftp.get opens local_path for writing, or open_sftp raises
TaskSftpOpen(t) ==
  /\ tasks[t].pc = "sftp"
  /\ \/ /\ local_file' = "partial"
        /\ tasks' = [tasks EXCEPT ![t].pc = "get"]
        /\ UNCHANGED jobs
     \/ Failed(t, "Connection error to processing server") /\ UNCHANGED local_file
  /\ UNCHANGED <<detectors, pc, requests, cutter>>

\* lines 244-253: the transfer ends, or raises and leaves what it has written
TaskSftpGet(t) ==
  /\ tasks[t].pc = "get"
  /\ \/ /\ local_file' = "whole"
        /\ tasks' = [tasks EXCEPT ![t].pc = "complete"]
        /\ UNCHANGED jobs
     \/ Failed(t, "Processed file not found") /\ UNCHANGED local_file
     \/ Failed(t, "An unexpected error occurred") /\ UNCHANGED local_file
  /\ UNCHANGED <<detectors, pc, requests, cutter>>

\* lines 246, 255-263: "rm" on the host, close, and the last update
TaskComplete(t) ==
  /\ tasks[t].pc = "complete"
  /\ \/ /\ jobs' = update_job(jobs, tasks[t].job_id,
                              [status |-> "complete", progress |-> 100,
                               processed_audio_url |-> "/audio"])
        /\ tasks' = [tasks EXCEPT ![t].pc = "done", ![t].commands = @ + 1]
     \/ Failed(t, "Connection error to processing server")
  /\ UNCHANGED <<detectors, pc, local_file, requests, cutter>>

process_on_dgx(t) ==
  \/ TaskDownloading(t)
  \/ TaskValidate(t)
  \/ TaskConnect(t)
  \/ TaskExec(t)
  \/ TaskCopy(t)
  \/ TaskSftpOpen(t)
  \/ TaskSftpGet(t)
  \/ TaskComplete(t)

NextBackend ==
  \/ ProcessCheckFile
  \/ \E r \in DOMAIN requests : ProcessGetJob(r)
  \/ \E r \in DOMAIN requests : ProcessCreate(r)
  \/ get_status
  \/ get_audio
  \/ \E t \in DOMAIN tasks : process_on_dgx(t)

SpecBackend == InitBackend /\ [][NextBackend]_vars

\* the thread pool runs every task it was given, and each remote call returns or raises
FairBackend == SpecBackend /\ WF_vars(\E t \in DOMAIN tasks : process_on_dgx(t))

(***************************************************************************)
(* The cutter (process_podcast.py): remove_ads_with_ffmpeg on the start    *)
(* and end pairs analyze_chunk_for_ads parsed from the replies of the LLM. *)
(* parse_timestamp accepts every number, so a pair is two times in any     *)
(* order, inside or beyond the audio.                                      *)
(***************************************************************************)
MaxCutAds == 2
MaxCutTime == 5
MergeBufferTicks == 1

InitCutter ==
  /\ mode = "fast" /\ has_ruptures = FALSE /\ has_embeddings = FALSE
  /\ llm_threshold = DefaultBand /\ audio_path = NoAudio /\ transcript = << >>
  /\ Idle
  /\ variant = "none" /\ gap = 0 /\ input = << >> /\ once = << >> /\ twice = << >>
  /\ NoProbe /\ scan_i = 0 /\ above_threshold = FALSE /\ NoBackend
  /\ pc = "cut"
  /\ ad_segments \in UNION {[1..n -> [start : 0..MaxCutTime, end : 0..MaxCutTime]] : n \in 0..MaxCutAds}
  /\ total_duration \in {MaxCutTime - 2, MaxCutTime}
  /\ merged_ads = << >> /\ keep_segments = << >>

\* "if not ad_segments": the input is copied
CopyInput ==
  /\ pc = "cut"
  /\ ad_segments = << >>
  /\ pc' = "copied"
  /\ UNCHANGED <<detectors, backend, cutter>>

\* lines 459-470: duration, merge_overlapping_segments, create_ffmpeg_filter
remove_ads_with_ffmpeg ==
  /\ pc = "cut"
  /\ ad_segments # << >>
  /\ merged_ads' = merge_overlapping_segments(ad_segments, MergeBufferTicks)
  /\ keep_segments' = create_ffmpeg_filter(merged_ads', total_duration)
  /\ pc' = "cut_done"
  /\ UNCHANGED <<detectors, backend, ad_segments, total_duration>>

NextCutter == CopyInput \/ remove_ads_with_ffmpeg

SpecCutter == InitCutter /\ [][NextCutter]_vars

(***************************************************************************)
(* Properties                                                              *)
(***************************************************************************)
\* detect got past line 161: it has samples to work on
Ran == timestamps # << >>
AfterPropagate == Ran /\ pc \in {"merge", "filter", "llm", "format", "returned"}

\* C1: every interval detect returns has 0 <= start < end and a confidence
\* between 0 and 1, whatever the mode, the transcript and the audio frames.
C1_ResultWellFormed ==
  \A i \in DOMAIN result :
    /\ 0 <= result[i].start
    /\ result[i].start < result[i].end
    /\ 0 <= result[i].confidence
    /\ result[i].confidence <= Unit

\* C2: the list left by _merge_adjacent(gap=15) and _filter_short is sorted by
\* start, has no two overlapping intervals, and consecutive intervals are more
\* than the gap apart.
C2_SortedAndSeparated ==
  (Ran /\ pc \in {"llm", "format", "returned"}) =>
    \A i \in 1..(Len(filtered) - 1) :
      /\ filtered[i].start <= filtered[i + 1].start
      /\ filtered[i].end <= filtered[i + 1].start
      /\ filtered[i + 1].start - filtered[i].end > Secs(MergeGapSecs)

\* C3: merging is idempotent: each of the three merge operations, applied to
\* its own output with the same gap, returns that output unchanged.
C3_MergeIdempotent == pc = "merged" => twice = once

\* a merge that coalesced some intervals and kept more than one
C3_Witness ==
  /\ pc = "merged"
  /\ Len(once) >= 2
  /\ Len(once) < Len(input)

\* C4: merging only widens: every interval handed to _merge_adjacent lies
\* inside some interval of its output, and no output interval ends before it
\* starts.
C4_MergeOnlyWidens ==
  (Ran /\ pc \in {"filter", "llm", "format", "returned"}) =>
    /\ \A i \in DOMAIN expanded_ads : \E j \in DOMAIN merged :
         merged[j].start <= expanded_ads[i].start /\ expanded_ads[i].end <= merged[j].end
    /\ \A j \in DOMAIN merged : merged[j].start <= merged[j].end

Kept == {k \in DOMAIN llmLog : llmLog[k].at # 0}

\* C5: when the request for an in-band interval fails, the interval is kept
\* with its confidence and its method unchanged.
C5_FailureKeepsUnchanged ==
  \A k \in DOMAIN llmLog :
    llmLog[k].outcome = "fail" =>
      /\ llmLog[k].at # 0
      /\ verified[llmLog[k].at].confidence = llmLog[k].ad.confidence
      /\ verified[llmLog[k].at].method = llmLog[k].ad.method

\* C6: for an interval strictly inside the band, a yes leaves it in the list
\* with confidence exactly 0.8 and the method tagged "+llm"; a no removes it.
C6_VerdictApplied ==
  /\ \A k \in DOMAIN llmLog :
       /\ llmLog[k].outcome = "yes" =>
            /\ llmLog[k].at # 0
            /\ verified[llmLog[k].at].start = llmLog[k].ad.start
            /\ verified[llmLog[k].at].end = llmLog[k].ad.end
            /\ verified[llmLog[k].at].confidence = Pct(80)
            /\ verified[llmLog[k].at].method = Append(llmLog[k].ad.method, "llm")
       /\ llmLog[k].outcome = "no" => llmLog[k].at = 0
  /\ pc = "llm" => Len(verified) = Cardinality({k \in DOMAIN llmLog : llmLog[k].outcome # "no"})

\* one run in which the endpoint said yes to one interval and no to another
C6_Witness ==
  /\ pc = "returned"
  /\ \E k \in DOMAIN llmLog : llmLog[k].outcome = "yes"
  /\ \E k \in DOMAIN llmLog : llmLog[k].outcome = "no"

\* C7: no request is made for an interval whose confidence is <= low or
\* >= high; such an interval is passed on unchanged, and the intervals that
\* survive keep their relative order.
C7_OutsideBandUntouched ==
  /\ \A k \in DOMAIN llmLog :
       llmLog[k].outcome \in {"yes", "no", "fail"} =>
         /\ llm_threshold.low < llmLog[k].ad.confidence
         /\ llmLog[k].ad.confidence < llm_threshold.high
  /\ \A k \in DOMAIN llmLog :
       (llmLog[k].ad.confidence <= llm_threshold.low
          \/ llmLog[k].ad.confidence >= llm_threshold.high) =>
         /\ llmLog[k].outcome = "pass"
         /\ llmLog[k].at # 0
         /\ verified[llmLog[k].at] = llmLog[k].ad
  /\ \A k \in DOMAIN llmLog : llmLog[k].ad = filtered[k]
  /\ \A k1, k2 \in Kept : k1 < k2 => llmLog[k1].at < llmLog[k2].at
  /\ \A k \in Kept : /\ verified[llmLog[k].at].start = filtered[k].start
                     /\ verified[llmLog[k].at].end = filtered[k].end

\* an interval exactly on the lower end of the band passed and was returned
C7_Witness ==
  /\ pc = "returned"
  /\ \E k \in DOMAIN llmLog : /\ llmLog[k].outcome = "pass"
                               /\ llmLog[k].ad.confidence = llm_threshold.low
                               /\ result[llmLog[k].at].confidence = llm_threshold.low


\* C8: on malformed input (empty transcript, no audio, or audio that yields no
\* frame) detect raises nothing and returns the empty list.
C8_MalformedReturnsEmpty ==
  (transcript = << >> /\ audio_path.clip = << >>) => raised = "none" /\ result = << >>

\* C9: edge expansion is monotonic: no interval is lost, and each output
\* interval starts no later and ends no earlier than its input interval.
C9_ExpansionMonotonic ==
  AfterPropagate =>
    /\ Len(expanded_ads) >= Len(ads)
    /\ \A i \in DOMAIN ads :
         /\ expanded_ads[i].start <= ads[i].start
         /\ expanded_ads[i].end >= ads[i].end

\* an interval grew on the left and an interval grew on the right
C9_Witness ==
  /\ AfterPropagate
  /\ \E i \in DOMAIN expanded_ads : expanded_ads[i].start < ads[i].start
  /\ \E i \in DOMAIN expanded_ads : expanded_ads[i].end > ads[i].end

\* C10 (as the code has it): expansion keeps each interval's confidence and
\* signals, and its method becomes the former method with "+expanded" added.
C10_ExpansionKeepsScores ==
  AfterPropagate =>
    /\ Len(expanded_ads) = Len(ads)
    /\ \A i \in DOMAIN ads :
         /\ expanded_ads[i].confidence = ads[i].confidence
         /\ expanded_ads[i].signals = ads[i].signals
         /\ expanded_ads[i].method = Append(ads[i].method, "expanded")

\* C10 (as stated): after edge expansion each interval's confidence, signals
\* and method are the same as before.
C10_ExpansionKeepsAll ==
  AfterPropagate =>
    \A i \in DOMAIN ads :
      /\ expanded_ads[i].confidence = ads[i].confidence
      /\ expanded_ads[i].signals = ads[i].signals
      /\ expanded_ads[i].method = ads[i].method

\* an opening interval and a change-point interval went through expansion, one moved
C10_Witness ==
  /\ AfterPropagate
  /\ Len(expanded_ads) >= 2
  /\ \E i \in DOMAIN expanded_ads :
       /\ expanded_ads[i].method = <<"opening_window", "expanded">>
       /\ expanded_ads[i].end > ads[i].end
  /\ \E i \in DOMAIN expanded_ads : expanded_ads[i].method = <<mode, "expanded">>

\* C11: whenever detect is given a non-empty transcript, the opening scan is
\* carried out and its windows stand in front of the other intervals, also
\* when the other stages produced no interval or no signal at all.
C11_OpeningScanAlways ==
  (pc = "returned" /\ transcript # << >>) =>
    LET opening_ads == _check_opening_ads(transcript, has_embeddings)
    IN /\ Len(ads) >= Len(opening_ads)
       /\ SubSeq(ads, 1, Len(opening_ads)) = opening_ads

\* C12 (as the code has it): in the opening scan a window with segments is
\* reported exactly when the classifier's confidence for its joined text is
\* above 0.3 or the text has a sponsor phrase or a promo code; the merged
\* windows are what _check_opening_ads returns.
C12_OpeningReportRule ==
  /\ \A k \in DOMAIN window_log :
       (window_log[k].reported # << >>)
         <=> \/ window_log[k].features.confidence > OpeningThreshold
             \/ window_log[k].features.has_sponsor_phrase
             \/ window_log[k].features.has_promo_code
  /\ pc = "scanned" => window_ads = _check_opening_ads(transcript, has_embeddings)

\* C12 (as stated): a window is reported exactly when the Domain Classifier
\* classifies its text as an ad at threshold 0.3, and never when the
\* classifier's confidence is below 0.3.
C12_OpeningReportsClassifierAds ==
  \A k \in DOMAIN window_log :
    /\ (window_log[k].reported # << >>) <=> window_log[k].is_ad
    /\ window_log[k].features.confidence < OpeningThreshold => window_log[k].reported = << >>

\* a scan that reported a promo-code window of confidence 0.29 and skipped another window
C12_Witness ==
  /\ pc = "scanned"
  /\ \E k \in DOMAIN window_log :
       /\ window_log[k].reported # << >>
       /\ window_log[k].features.confidence < OpeningThreshold
       /\ window_log[k].reported[1].confidence = OpeningFloor
  /\ \E k \in DOMAIN window_log : window_log[k].reported = << >>

\* C13: the classifier's confidence never goes down when one indicator is
\* turned from false to true or the keyword score is raised, all other
\* inputs being the same.
C13_ConfidenceMonotonic ==
  pc = "scored" => scored.confidence_low <= scored.confidence_high

\* an indicator was turned on and the confidence went up
C13_Witness ==
  /\ pc = "scored"
  /\ \E name \in IndicatorNames : ~scored.low[name] /\ scored.high[name]
  /\ scored.confidence_low < scored.confidence_high

\* C14: the confidence is min(1, 0.35 sponsor + 0.25 promo + 0.15 URL +
\* 0.15 CTA + 0.10 intro + 0.05 outro + 0.10 standard length + 0.15 topic
\* island + 0.20 min(1, keyword hits / 5)), so it lies in [0, 1]; a span
\* without any indicator gets 0, and a span with sponsor, promo, URL, standard
\* length and five keyword hits gets at least 0.85.
C14_ConfidenceFormula ==
  LET Term(b, pct) == IF b THEN pct * 100 ELSE 0
      Bonus(hits) == IF hits >= 5 THEN 2000 ELSE hits * 400
      Clamp(x) == IF x > 10000 THEN 10000 ELSE x
  IN /\ pc = "scored" =>
          /\ scored.confidence_low =
               Clamp(Term(scored.low.has_sponsor, 35) + Term(scored.low.has_promo, 25)
                     + Term(scored.low.has_url, 15) + Term(scored.low.has_cta, 15)
                     + Term(scored.low.has_intro, 10) + Term(scored.low.has_outro, 5)
                     + Term(scored.low.is_standard_length, 10)
                     + Term(scored.low.is_topic_island, 15)
                     + scored.low.keyword_score \div 5)
          /\ 0 <= scored.confidence_low /\ scored.confidence_low <= 10000
     /\ \A m \in DOMAIN runs :
          LET f == runs[m].features
          IN /\ f.confidence =
                  Clamp(Term(f.has_sponsor_phrase, 35) + Term(f.has_promo_code, 25)
                        + Term(f.has_url, 15) + Term(f.has_call_to_action, 15)
                        + Term(f.has_intro_transition, 10) + Term(f.has_outro_transition, 5)
                        + Term(f.is_standard_ad_length, 10) + Term(f.is_topic_island, 15)
                        + Bonus(f.keyword_count))
             /\ 0 <= f.confidence /\ f.confidence <= 10000
             /\ (/\ f.keyword_count = 0
                 /\ ~f.has_intro_transition /\ ~f.has_outro_transition
                 /\ ~f.is_standard_ad_length /\ ~f.is_topic_island) => f.confidence = 0
             /\ (/\ f.has_sponsor_phrase /\ f.has_promo_code /\ f.has_url
                 /\ f.is_standard_ad_length /\ f.keyword_count >= 5) => f.confidence >= 8500

\* a sponsor read of standard length with five keyword hits: the sum of the
\* weights is 1.05 and the confidence 1
C14_Witness ==
  \E m \in DOMAIN runs :
    /\ runs[m].features.has_sponsor_phrase /\ runs[m].features.has_promo_code
    /\ runs[m].features.has_url /\ runs[m].features.is_standard_ad_length
    /\ runs[m].features.keyword_count = 5
    /\ runs[m].features.confidence = 10000

\* C15: the classifier run on the same span with and without the embedding
\* model gives the same sponsor, promo, URL, CTA, intro and outro flags and
\* the same keyword count; without the model both neighbour similarities are
\* the neutral 0.5, topic island is false and the embedding score is 0.
C15_EmbeddingOnlyFlattens ==
  /\ \A m \in DOMAIN runs :
       ~m => /\ runs[m].features.topic_similarity_before = NeutralSimilarity
             /\ runs[m].features.topic_similarity_after = NeutralSimilarity
             /\ ~runs[m].features.is_topic_island
             /\ runs[m].embedding_score = 0
  /\ DOMAIN runs = BOOLEAN =>
       /\ runs[TRUE].features.has_sponsor_phrase = runs[FALSE].features.has_sponsor_phrase
       /\ runs[TRUE].features.has_promo_code = runs[FALSE].features.has_promo_code
       /\ runs[TRUE].features.has_url = runs[FALSE].features.has_url
       /\ runs[TRUE].features.has_call_to_action = runs[FALSE].features.has_call_to_action
       /\ runs[TRUE].features.has_intro_transition = runs[FALSE].features.has_intro_transition
       /\ runs[TRUE].features.has_outro_transition = runs[FALSE].features.has_outro_transition
       /\ runs[TRUE].features.keyword_count = runs[FALSE].features.keyword_count

\* both runs are over and the model made a difference: with it the span is a
\* topic island with a positive embedding score
C15_Witness ==
  /\ DOMAIN runs = BOOLEAN
  /\ runs[TRUE].features.is_topic_island
  /\ runs[TRUE].features.topic_similarity_before < IslandSimilarity
  /\ runs[TRUE].embedding_score > 0
  /\ runs[TRUE].features.has_url
  /\ runs[TRUE].features.confidence > runs[FALSE].features.confidence

\* C16: a span of at most 200 characters is never flagged has_outro_transition;
\* in a longer span an outro phrase counts only within the last 200
\* characters and an intro phrase only within the first 200.
C16_TransitionSlices ==
  \A m \in DOMAIN runs :
    LET text == span.text
        f == runs[m].features
        Holds(i, table) == \E p \in text[i].cls : p[1] = table
    IN /\ TextLen(text) <= SliceChars => ~f.has_outro_transition
       /\ TextLen(text) > SliceChars =>
            /\ f.has_outro_transition <=>
                 \E i \in DOMAIN text :
                   /\ Holds(i, "outro")
                   /\ PhraseStart(text, i) + text[i].lo >= TextLen(text) - SliceChars
            /\ f.has_intro_transition <=>
                 \E i \in DOMAIN text :
                   /\ Holds(i, "intro")
                   /\ PhraseStart(text, i) + text[i].hi <= SliceChars

\* a span of 150 characters that ends with an outro phrase and is not flagged
C16_Witness ==
  /\ runs # << >>
  /\ span.text = <<LongFiller, BackToTheStory>>
  /\ TextLen(span.text) = 150
  /\ \A m \in DOMAIN runs : ~runs[m].features.has_outro_transition

\* C17: filtering by minimum duration is monotonic: with m1 <= m2, every
\* interval kept with minimum m2 is kept with minimum m1, and the kept
\* intervals stand in the order they had in the input.
C17_FilterMonotonic ==
  LET InOrder(sub, list) ==
        \E at \in [DOMAIN sub -> DOMAIN list] :
          /\ \A i \in DOMAIN sub : sub[i] = list[at[i]]
          /\ \A i, j \in DOMAIN sub : i < j => at[i] < at[j]
  IN /\ \A k \in DOMAIN kept : InOrder(kept[k], input)
     /\ pc = "filtered" => InOrder(kept[2], kept[1])

\* the smaller minimum dropped one interval and kept two, the larger one
\* dropped one more
C17_Witness ==
  /\ pc = "filtered"
  /\ Len(kept[2]) >= 1
  /\ Len(kept[1]) >= 2
  /\ Len(kept[2]) < Len(kept[1])
  /\ Len(kept[1]) < Len(input)

\* C18: the confidence of an interval emitted by _classify_segments is
\* 0.4 * signal average + 0.6 * classifier confidence when there is a
\* transcript and the signal average alone otherwise, and an interval is
\* emitted only if that confidence exceeds the classification threshold.
C18_SegmentScore ==
  pc = "propagate" =>
    \A i \in DOMAIN classified :
      LET ad == classified[i]
          inside == {j \in DOMAIN timestamps : ad.start <= timestamps[j] /\ timestamps[j] < ad.end}
          signal_average == MeanAt(combined, inside)
          seg_text == TextIn(transcript, ad.start, ad.end)
          classifier_confidence ==
            IF seg_text = << >> THEN 0
            ELSE classify(seg_text, ad.end - ad.start,
                          TextIn(transcript, ad.start - Secs(ContextSecs), ad.start),
                          TextIn(transcript, ad.end, ad.end + Secs(ContextSecs)),
                          has_embeddings).confidence
      IN /\ ad.confidence > ClassifyThreshold
         /\ ad.signals.signal_score = Round3(signal_average)
         /\ ad.signals.classifier_score = Round3(classifier_confidence)
         /\ transcript # << >> =>
              ad.confidence = (40 * signal_average + 60 * classifier_confidence) \div 100
         /\ transcript = << >> => ad.confidence = signal_average

\* with a transcript, one interval was emitted on the strength of the
\* classifier and another interval was not emitted
C18_Witness ==
  /\ pc = "propagate"
  /\ transcript # << >>
  /\ Len(classified) <= Len(change_points)
  /\ \E i \in DOMAIN classified :
       /\ classified[i].signals.signal_score < ClassifyThreshold
       /\ classified[i].signals.classifier_score > classified[i].signals.signal_score

\* C19: after alignment every channel has the length of the timestamp axis:
\* a channel of that length is taken as it is, a longer one keeps its first n
\* values, a shorter one keeps its values and is filled up with zeros; the
\* fused signal has the length of the axis too.
C19_AlignedLengths ==
  /\ \A name \in DOMAIN signals : Len(signals[name]) = Len(timestamps)
  /\ pc = "combine" =>
       /\ DOMAIN signals = DOMAIN Collected.all_signals
       /\ \A name \in DOMAIN signals :
            LET raw == Collected.all_signals[name]
                n == Len(timestamps)
            IN /\ Len(raw) = n => signals[name] = raw
               /\ Len(raw) > n => signals[name] = SubSeq(raw, 1, n)
               /\ Len(raw) < n =>
                    /\ SubSeq(signals[name], 1, Len(raw)) = raw
                    /\ \A i \in (Len(raw) + 1)..n : signals[name][i] = 0
  /\ pc \in {"change_points", "classify", "propagate", "merge", "filter", "llm", "format",
             "returned"} =>
       Len(combined) = Len(timestamps)

\* a keyword channel shorter than the audio axis was filled up with zeros
C19_Witness ==
  /\ pc = "combine"
  /\ "keyword" \in DOMAIN signals
  /\ Len(Collected.all_signals["keyword"]) < Len(timestamps)
  /\ signals["keyword"][1] > 0
  /\ signals["keyword"][Len(timestamps)] = 0

\* C20: in the two-stage detector a suspicious window whose request fails is
\* taken as not an ad and is not added; a window whose response is no valid
\* JSON is added only if the text scan finds an affirmative token; and a
\* failure for one window does not keep the remaining windows from being
\* checked.
C20_TwoStageFailurePolicy ==
  /\ last_reply # << >> =>
       /\ last_reply.kind \in {"error", "not_object"} => ~last_reply.is_ad /\ ~last_reply.added
       /\ (last_reply.kind \in {"text_true", "text_other"} /\ last_reply.added) =>
            last_reply.kind = "text_true"
       /\ ~last_reply.added => Len(ad_windows) = last_reply.held
       /\ last_reply.added =>
            /\ Len(ad_windows) = last_reply.held + 1
            /\ ad_windows[Len(ad_windows)].start = suspicious_windows[checked].start
            /\ ad_windows[Len(ad_windows)].end = suspicious_windows[checked].end
            /\ ad_windows[Len(ad_windows)].confidence = last_reply.confidence
  /\ pc = "two_stage_returned" =>
       /\ checked = Len(suspicious_windows)
       /\ raised = "none"
       /\ Len(result) <= Len(ad_windows)
       /\ ad_windows # << >> => result # << >>

\* a request failed, the scan went on, and a later window with a response
\* that was no JSON but held "true" was added and returned
C20_Witness ==
  /\ pc = "two_stage_returned"
  /\ failures >= 1
  /\ last_reply.kind = "text_true"
  /\ last_reply.added
  /\ Len(ad_windows) = 1
  /\ Len(result) = 1

\* C21: the threshold fallback flips between above and below 0.4: all
\* through the scan the breakpoints found are the timestamps of the samples
\* scanned so far that lie on the other side of the threshold than the
\* sample before them, in order; there are as many breakpoints as flips and
\* they increase strictly.
C21_ThresholdFlips ==
  (pc \in {"threshold", "threshold_done"} /\ Len(combined) >= EnsembleMinSamples) =>
    LET flips == {k \in 2..scan_i : (combined[k] > Pct(40)) # (combined[k - 1] > Pct(40))}
    IN /\ scan_i \in 1..Len(combined)
       /\ above_threshold = (combined[scan_i] > Pct(40))
       /\ change_points = AtIndices(timestamps, flips)
       /\ Len(change_points) = Cardinality(flips)
       /\ \A a, b \in DOMAIN change_points : a < b => change_points[a] < change_points[b]

\* a scan is over that crossed the threshold up and down again, with a
\* sample exactly on the threshold in between
C21_Witness ==
  /\ pc = "threshold_done"
  /\ Len(change_points) >= 2
  /\ Len(change_points) < Len(combined) - 1
  /\ \E k \in DOMAIN combined : combined[k] = Pct(40)

\* C22: in the gradient fallback every breakpoint is at a peak (a sample
\* whose gradient exceeds the 90th percentile), two breakpoints are more
\* than 5 samples apart, and a peak more than 5 samples after the last
\* breakpoint before it is a breakpoint.
C22_GradientPeaks ==
  (pc = "gradient_done" /\ Len(combined) >= MinSamples) =>
    LET peaks == GradientPeaks(combined)
        emitted == {k - 1 : k \in {j \in DOMAIN timestamps : timestamps[j] \in Range(change_points)}}
    IN /\ emitted \subseteq peaks
       /\ Len(change_points) = Cardinality(emitted)
       /\ \A a, b \in emitted : a < b => b - a > PeakGap
       /\ \A p \in peaks :
            LET earlier == {e \in emitted : e < p}
            IN (earlier = {} \/ p - SetMax(earlier) > PeakGap) => p \in emitted

\* the fallback found two breakpoints, or passed over a peak that came too
\* soon after a breakpoint
C22_Witness ==
  /\ pc = "gradient_done"
  /\ Len(combined) >= MinSamples
  /\ \/ Len(change_points) = 2
     \/ Len(change_points) = 1 /\ Cardinality(GradientPeaks(combined)) = 2

\* C23: the transition score of a transcript segment among the first or the
\* last 3 is 1.5 times the score its text gets in the middle, clamped to
\* [0,1]; here for the transition channel the hybrid detector extracts on the
\* transcript's own axis.
C23_TransitionNearEdges ==
  (pc = "combine" /\ UsesText /\ ~UsesAudio) =>
    \A k \in DOMAIN transcript :
      (k <= 3 \/ k > Len(transcript) - 3) =>
        signals.transition[k]
          = Min2((3 * transition_score(transcript[k].text, "middle")) \div 2, Unit)

\* C24: the boundary score is 0 for a neighbour similarity >= 0.7, 1 for a
\* similarity <= 0.3, and in [0,1] for every similarity; here for the
\* boundary channel extracted on the transcript's own axis, whose sample k
\* is boundary_score of segments k - 1 and k.
C24_BoundaryScoreRange ==
  (pc = "combine" /\ UsesText /\ ~UsesAudio /\ "boundary" \in DOMAIN signals) =>
    \A k \in DOMAIN transcript :
      /\ signals.boundary[k] \in 0..Unit
      /\ k > 1 =>
           LET similarity == CosineSimilarity(transcript[k - 1].text, transcript[k].text)
           IN /\ similarity >= Pct(70) => signals.boundary[k] = 0
              /\ similarity <= Pct(30) => signals.boundary[k] = Unit

\* C25: in _classify_segments the intervals between consecutive boundaries
\* (first timestamp, change points, last timestamp) partition the timestamp
\* axis: every sample, the last one included, lies in the mask of exactly one
\* interval, and every transcript segment starts inside an interval that is
\* scored (one whose mask is not empty).
C25_IntervalsPartition ==
  pc = "classify" =>
    LET intervals == ScoredIntervals(timestamps, change_points)
    IN /\ \A j \in DOMAIN timestamps :
            Cardinality({i \in DOMAIN intervals : j \in intervals[i].mask}) = 1
       /\ \A k \in DOMAIN transcript :
            \E i \in DOMAIN intervals :
              /\ intervals[i].mask # {}
              /\ intervals[i].start <= transcript[k].start
              /\ transcript[k].start < intervals[i].end

\* C26: however the POST /process requests for one episode_id and audio_url
\* interleave, on one worker or on several that share the job table, at most
\* one background task process_on_dgx is started for the job id.
C26_OneTaskPerJob ==
  \A t \in DOMAIN tasks, u \in DOMAIN tasks : tasks[t].job_id = tasks[u].job_id => t = u

\* C27: the stored status of a job only moves forward along queued,
\* downloading, transcribing, cutting, complete, with error reachable from
\* every status that is not terminal; complete and error are never left, and
\* the stored progress never decreases.
C27_StatusOnlyForward ==
  [][\A j \in DOMAIN jobs :
       LET rank == [queued |-> 0, downloading |-> 1, transcribing |-> 2, cutting |-> 3,
                    complete |-> 4, error |-> 4]
           old == jobs[j]
           new == jobs'[j]
       IN /\ j \in DOMAIN jobs'
          /\ \/ new.status = old.status
             \/ rank[old.status] < 4 /\ new.status = "error"
             \/ rank[old.status] < rank[new.status]
          /\ new.progress >= old.progress]_vars

\* C28: every job for which process_on_dgx is started ends in complete or
\* error, on every path (validation failure, SSH failure, non-zero remote
\* exit, failed container copy, missing file, any other exception), given
\* that each remote call returns or raises; and a task whose input has
\* invalid characters opens no SSH connection and runs no remote command.
C28_TaskEnds ==
  /\ \A t \in 1..MaxRequests :
       (t \in DOMAIN tasks) ~>
         (/\ t \in DOMAIN tasks
          /\ tasks[t].pc = "done"
          /\ jobs[tasks[t].job_id].status \in {"complete", "error"})
  /\ [](\A t \in DOMAIN tasks :
          ~(/\ _validate_shell_arg(tasks[t].audio_url)
            /\ _validate_shell_arg(tasks[t].title)
            /\ _validate_shell_arg(tasks[t].podcast_title))
          => ~tasks[t].connected /\ tasks[t].commands = 0)

\* a task stopped by the validation: the job is in error and nothing was sent
C28_Witness ==
  \E t \in DOMAIN tasks :
    /\ ~_validate_shell_arg(tasks[t].title)
    /\ tasks[t].pc = "done"
    /\ jobs[tasks[t].job_id].status = "error"
    /\ jobs[tasks[t].job_id].error = "Invalid input characters"

\* C29: GET /status and POST /process answer complete, and GET /audio serves
\* the file, only once the processed file has been downloaded completely;
\* while a task is in its download step no request observes complete.
C29_CompleteOnlyAfterDownload ==
  [][\A r \in DOMAIN requests' :
       (/\ requests'[r].pc = "done"
        /\ r \in DOMAIN requests => requests[r].pc # "done"
        /\ requests'[r].response \in {"complete", "file"})
       => /\ local_file = "whole"
          /\ \A t \in DOMAIN tasks : tasks[t].pc # "get"]_vars

\* C30: for every ad list remove_ads_with_ffmpeg passes on (the output of
\* merge_overlapping_segments over the pairs parsed from the LLM), the
\* segments create_ffmpeg_filter keeps are the inverse of the ads: they are
\* in increasing order and pairwise disjoint, they lie within
\* [0, total_duration], and no instant is both kept and inside an ad.
C30_KeepIsInverse ==
  pc = "cut_done" =>
    /\ \A i \in DOMAIN keep_segments :
         /\ 0 <= keep_segments[i].start
         /\ keep_segments[i].start < keep_segments[i].end
         /\ keep_segments[i].end <= total_duration
    /\ \A i \in DOMAIN keep_segments, j \in DOMAIN keep_segments :
         i < j => keep_segments[i].end <= keep_segments[j].start
    /\ \A i \in DOMAIN keep_segments, a \in DOMAIN merged_ads :
         ~(/\ Max2(keep_segments[i].start, merged_ads[a].start)
                < Min2(keep_segments[i].end, merged_ads[a].end))

====
